---- MODULE Spec2Model ----
(***************************************************************************)
(* AVMap (libavutil/map.c, map.h) on top of the AVL tree of                *)
(* libavutil/tree.c.                                                       *)
(*                                                                         *)
(* Memory is a heap of blocks.  A pointer is <<block, byte offset>>; the    *)
(* arena of a map is one block that holds fixed-size slots of              *)
(* sizeof(AVMapInternalEntry) bytes.  An entry is a run of slots: the      *)
(* AVMapEntry header, the embedded AVTreeNode, then the key bytes and the  *)
(* value bytes.  A freed block keeps no contents; a pointer into it is     *)
(* dangling and reading through it is undefined.                           *)
(***************************************************************************)
EXTENDS Integers, Sequences, FiniteSets, TLC

VARIABLES heap, s, live, cur, curok, last, ub, build, calls, clone, clonelive

vars == <<heap, s, live, cur, curok, last, ub, build, calls, clone, clonelive>>

----------------------------------------------------------------------------
(* Bounds of the model *)

\* the arena cursor s->next never passes this many slots
MaxSlots == 10

\* heap block ids 1..MaxBlocks
MaxBlocks == 7

\* calls made on the map in one behaviour
MaxCalls == 4

\* the same two bounds where only the tree is looked at
TreeSlots == 15

TreeCalls == 6

----------------------------------------------------------------------------
(* Program constants *)

\* sizeof(AVMapInternalEntry) == sizeof(AVMapEntry): two pointers, two ints
SlotSize == 24

\* sizeof(AVTreeNode): two child pointers, elem, int state (padded)
NodeSize == 32

AV_MAP_ALLOW_REBUILD == 1

AV_MAP_REPLACE == 2

\* AVERROR(ENOMEM)
ENOMEM == -12

INT32_MAX == 2147483647

NULL == <<0, 0>>

\* &deleted_entry, the address of a static byte that is in no arena
deleted_entry == <<-1, 0>>

\* block number of the caller's own strings (lookup arguments)
UserBlock == -2

\* a pointer value that results from undefined behaviour: it designates no
\* object
Undefined == <<-3, 0>>

----------------------------------------------------------------------------
(* Strings: byte sequences with their terminating 0 *)

LongValue == <<121, 121, 121, 121, 121, 121, 121, 121, 121, 121, 121, 121, 121, 121, 0>>

\* the <<key, value>> pairs a caller adds: "A"="x", "a"="x", "a"="yyy..."
Entries == {<<<<65, 0>>, <<120, 0>>>>, <<<<97, 0>>, <<120, 0>>>>,
            <<<<97, 0>>, LongValue>>}

\* the strings a caller passes to get/del: a key alone, or key + value
UserStr == <<
    <<65, 0>>, <<97, 0>>,
    <<65, 0>> \o <<120, 0>>, <<97, 0>> \o <<120, 0>>,
    <<97, 0>> \o LongValue,
    <<98, 0>>, <<99, 0>>, <<100, 0>>, <<101, 0>> >>

\* the caller's pointer to the string kv
UserPtr(kv) == <<UserBlock, CHOOSE i \in 1..Len(UserStr) : UserStr[i] = kv>>

KeyArgs == {<<UserBlock, 1>>, <<UserBlock, 2>>}

\* the keys "a" to "e" a caller fills a tree with, each with the value "x"
TreeKeys == {UserStr[i] : i \in {2, 6, 7, 8, 9}}

KeyvalueArgs == {<<UserBlock, 3>>, <<UserBlock, 4>>, <<UserBlock, 5>>}

Skip(a, n) == SubSeq(a, n + 1, Len(a))

RECURSIVE strlen(_)
strlen(a) == IF a[1] = 0 THEN 0 ELSE 1 + strlen(Tail(a))

RECURSIVE strcmp(_, _)
strcmp(a, b) ==
    IF a[1] # b[1] THEN a[1] - b[1]
    ELSE IF a[1] = 0 THEN 0
    ELSE strcmp(Tail(a), Tail(b))

av_tolower(c) == IF c >= 65 /\ c <= 90 THEN c + 32 ELSE c

RECURSIVE av_strcasecmp(_, _)
av_strcasecmp(a, b) ==
    IF av_tolower(a[1]) # av_tolower(b[1]) THEN av_tolower(a[1]) - av_tolower(b[1])
    ELSE IF a[1] = 0 THEN 0
    ELSE av_strcasecmp(Tail(a), Tail(b))

av_map_strcmp_keyvalue(a, b) ==
    IF strcmp(a, b) = 0
    THEN strcmp(Skip(a, strlen(a) + 1), Skip(b, strlen(a) + 1))
    ELSE strcmp(a, b)

\* av_map_supercmp_key that leaves out the case-insensitive comparison
av_map_supercmp_key_exact(a, b) == strcmp(a, b)

av_map_supercmp_key(a, b) ==
    IF av_strcasecmp(a, b) = 0 THEN strcmp(a, b) ELSE av_strcasecmp(a, b)

\* av_map_supercmp_keyvalue without the comparison of the values
av_map_supercmp_keyvalue_novalue(a, b) == av_map_supercmp_key(a, b)

av_map_supercmp_keyvalue(a, b) ==
    IF av_map_supercmp_key(a, b) = 0
    THEN strcmp(Skip(a, strlen(a) + 1), Skip(b, strlen(a) + 1))
    ELSE av_map_supercmp_key(a, b)

\* a comparator, named by the function the caller passes
Compare(c, a, b) ==
    CASE c = "strcmp" -> strcmp(a, b)
      [] c = "av_strcasecmp" -> av_strcasecmp(a, b)
      [] c = "av_map_strcmp_keyvalue" -> av_map_strcmp_keyvalue(a, b)
      [] c = "av_map_supercmp_key" -> av_map_supercmp_key(a, b)
      [] c = "av_map_supercmp_keyvalue" -> av_map_supercmp_keyvalue(a, b)

\* (unsigned)v >> 31 of a 32-bit int
Shr31(v) == IF v < 0 THEN 1 ELSE 0

----------------------------------------------------------------------------
(* The heap and the layout of an entry run *)

\* one slot of an arena; only the first slot of a run carries the fields
NoCell == [kind |-> "uninit", key |-> NULL, value |-> NULL, keylen |-> 0, valuelen |-> 0,
           child |-> <<NULL, NULL>>, elem |-> NULL, state |-> 0, kv |-> <<>>]

BodyCell == [NoCell EXCEPT !.kind = "body"]

NoBlock == [alive |-> FALSE, mem |-> <<>>]

\* index in mem of the slot that holds byte offset off
SlotIndex(off) == (off \div SlotSize) + 1

internal_entry_len(I) ==
    (I.keylen + I.valuelen + SlotSize + NodeSize - 1) \div SlotSize + 1

internal_treenode(I) == <<I[1], I[2] + SlotSize>>

internal_key(I) == <<I[1], I[2] + SlotSize + NodeSize>>

internal_value(I, keylen) == <<I[1], I[2] + SlotSize + NodeSize + keylen>>

keyvalue2internal(keyvalue) == <<keyvalue[1], keyvalue[2] - SlotSize - NodeSize>>

\* the run header an AVMapInternalEntry pointer refers to
EntryAt(h, I) == h[I[1]].mem[SlotIndex(I[2])]

\* the AVTreeNode a node pointer refers to (embedded in its run)
NodeAt(h, t) == h[t[1]].mem[SlotIndex(t[2] - SlotSize)]

\* the bytes a key pointer (or a caller's string) refers to
Bytes(h, p) ==
    IF p[1] = UserBlock THEN UserStr[p[2]]
    ELSE IF p = deleted_entry THEN <<0>>
    ELSE h[p[1]].mem[SlotIndex(p[2] - SlotSize - NodeSize)].kv

cmp(h, c, a, b) == Compare(c, Bytes(h, a), Bytes(h, b))

SetChild(h, t, i, q) ==
    [h EXCEPT ![t[1]].mem[SlotIndex(t[2] - SlotSize)].child[i + 1] = q]

SetElem(h, t, e) ==
    [h EXCEPT ![t[1]].mem[SlotIndex(t[2] - SlotSize)].elem = e]

SetState(h, t, v) ==
    [h EXCEPT ![t[1]].mem[SlotIndex(t[2] - SlotSize)].state = v]

----------------------------------------------------------------------------
(* libavutil/tree.c.  A function whose result is used by the statements     *)
(* that follow it is given in steps: each step takes what the previous one  *)
(* computed.                                                                *)

RECURSIVE tree_find_next(_, _, _, _, _, _, _)
tree_find_next(h, c, t, key, next, nextlen, direction) ==
    IF t = NULL THEN next
    ELSE IF cmp(h, c, key, NodeAt(h, t).elem) # 0
    THEN tree_find_next(h, c, NodeAt(h, t).child[(1 - direction) + 1], key,
                        [next EXCEPT ![direction + 1] = NodeAt(h, t).elem],
                        nextlen, direction)
    ELSE tree_find_next(h, c, NodeAt(h, t).child[direction + 1], key,
                        IF nextlen >= 4
                        THEN [next EXCEPT ![2 + direction + 1] = NodeAt(h, t).elem]
                        ELSE next,
                        nextlen, direction)

RECURSIVE av_tree_find2(_, _, _, _, _, _)

\* av_tree_find2 that does not look below the node it has found the key in
av_tree_find2_at_path(h, c, t, key, next, nextlen, v) ==
    IF v # 0
    THEN av_tree_find2(h, c, NodeAt(h, t).child[(1 - Shr31(v)) + 1], key,
                       IF next # << >>
                       THEN [next EXCEPT ![Shr31(v) + 1] = NodeAt(h, t).elem]
                       ELSE next,
                       nextlen)
    ELSE [ret |-> NodeAt(h, t).elem, next |-> next]

\* the body of the loop of av_tree_find2 at node t, with v = cmp(key, t->elem)
av_tree_find2_at(h, c, t, key, next, nextlen, v) ==
    IF v # 0
    THEN av_tree_find2(h, c, NodeAt(h, t).child[(1 - Shr31(v)) + 1], key,
                       IF next # << >>
                       THEN [next EXCEPT ![Shr31(v) + 1] = NodeAt(h, t).elem]
                       ELSE next,
                       nextlen)
    ELSE [ret |-> NodeAt(h, t).elem,
          next |-> IF next # << >>
                   THEN tree_find_next(h, c, NodeAt(h, t).child[2], key,
                            tree_find_next(h, c, NodeAt(h, t).child[1], key, next, nextlen, 0),
                            nextlen, 1)
                   ELSE next]

\* next = << >> is the null array; the result is [ret, next]
av_tree_find2(h, c, t, key, next, nextlen) ==
    IF t = NULL THEN [ret |-> NULL, next |-> next]
    ELSE av_tree_find2_at(h, c, t, key, next, nextlen, cmp(h, c, key, NodeAt(h, t).elem))

av_tree_find(h, c, t, key, next) == av_tree_find2(h, c, t, key, next, 2)

\* dst->child[i] = src->child[j]
CopyChild(h, dst, i, src, j) == SetChild(h, dst, i, NodeAt(h, src).child[j + 1])

\* if (!(*tp)->state ^ !!*next) return key; return ret;  with ret == NULL
tree_insert_return(h, tp, key, next) ==
    [h |-> h, tp |-> tp, next |-> next,
     ret |-> IF (NodeAt(h, tp).state = 0) # (next # NULL) THEN key ELSE NULL]

\* the double rotation; child is *child and g is (*child)->child[i ^ 1], the
\* new *tp; gs is its state
tree_rotate_double(h, t, i, child, g, gs) ==
    SetState(
        SetState(
            SetState(
                SetChild(
                    CopyChild(
                        SetChild(CopyChild(h, child, 1 - i, g, i), g, i, child),
                        t, i, g, 1 - i),
                    g, 1 - i, t),
                IF i = 0 THEN child ELSE t, IF gs > 0 THEN -1 ELSE 0),
            IF i = 0 THEN t ELSE child, IF gs < 0 THEN 1 ELSE 0),
        g, 0)

\* the single rotation that ends with (*tp)->state = t->state
tree_rotate_single_samestate(h, t, i, child, ts) ==
    SetState(SetState(SetChild(CopyChild(h, t, i, child, 1 - i), child, 1 - i, t), t, ts),
             child, ts)

\* the single rotation; child is *child, the new *tp; ts is the new t->state
tree_rotate_single(h, t, i, child, ts) ==
    SetState(SetState(SetChild(CopyChild(h, t, i, child, 1 - i), child, 1 - i, t), t, ts),
             child, -ts)

\* the node t after t->state += 2 * i - 1
tree_rebalance_at(h, t, i, key, next, child) ==
    IF NodeAt(h, t).state % 2 = 0 /\ NodeAt(h, t).state # 0
    THEN IF NodeAt(h, child).state * 2 = -NodeAt(h, t).state
         THEN tree_insert_return(
                  tree_rotate_double(h, t, i, child, NodeAt(h, child).child[(1 - i) + 1],
                      NodeAt(h, NodeAt(h, child).child[(1 - i) + 1]).state),
                  NodeAt(h, child).child[(1 - i) + 1], key, next)
         ELSE tree_insert_return(
                  tree_rotate_single(h, t, i, child,
                      IF NodeAt(h, child).state # 0 THEN 0 ELSE NodeAt(h, t).state \div 2),
                  child, key, next)
    ELSE tree_insert_return(h, t, key, next)

\* the rebalancing of av_tree_insert after the recursive call on child d
\* returned NULL; next is *next
tree_rebalance(h, t, d, key, next) ==
    tree_rebalance_at(
        SetState(h, t, NodeAt(h, t).state + 2 * (IF next # NULL THEN 1 - d ELSE d) - 1),
        t, IF next # NULL THEN 1 - d ELSE d, key, next,
        NodeAt(h, t).child[(IF next # NULL THEN 1 - d ELSE d) + 1])

\* r is what the recursive call on t->child[d] returned
tree_insert_back(r, t, d, key) ==
    IF r.ret = NULL
    THEN tree_rebalance(SetChild(r.h, t, d, r.tp), t, d, key, r.next)
    ELSE [h |-> SetChild(r.h, t, d, r.tp), tp |-> t, next |-> r.next, ret |-> r.ret]

RECURSIVE av_tree_insert(_, _, _, _, _)

\* ret = av_tree_insert(&t->child[v >> 31], key, cmp, next) and what follows
tree_insert_descend(h, c, t, key, next, d) ==
    tree_insert_back(av_tree_insert(h, c, NodeAt(h, t).child[d + 1], key, next), t, d, key)

\* the removal from an inner node that goes on with v = i - 1, into the
\* child its neighbour is not in
tree_insert_replace_far(h, c, t, next, i, elem) ==
    tree_insert_descend(SetElem(h, t, elem), c, t, elem, next, 1 - i)

\* key = t->elem = next_elem[i]; v = -i; with elem = next_elem[i], which the
\* declaration leaves uninitialized
tree_insert_replace(h, c, t, next, i, elem) ==
    tree_insert_descend(SetElem(h, t, elem), c, t, elem, next, i)

\* av_tree_insert that stores the key in the node of the equal element it
\* has found
av_tree_insert_at_stored(h, c, t, key, next, v, i) ==
    IF v = 0 /\ next # NULL
    THEN [h |-> SetElem(h, t, key), tp |-> t, next |-> next, ret |-> NodeAt(h, t).elem]
    ELSE IF v = 0 /\ NodeAt(h, t).child = <<NULL, NULL>>
    THEN [h |-> h, tp |-> NULL, next |-> t, ret |-> NULL]
    ELSE IF v = 0
    THEN tree_insert_replace(h, c, t, next, i,
             av_tree_find(h, c, NodeAt(h, t).child[i + 1], key,
                          <<Undefined, Undefined>>).next[i + 1])
    ELSE tree_insert_descend(h, c, t, key, next, Shr31(v))

\* node t with v = cmp(t->elem, key) and i = !t->child[0].  The result is
\* [h, tp, next, ret].
av_tree_insert_at(h, c, t, key, next, v, i) ==
    IF v = 0 /\ next # NULL
    THEN [h |-> h, tp |-> t, next |-> next, ret |-> NodeAt(h, t).elem]
    ELSE IF v = 0 /\ NodeAt(h, t).child = <<NULL, NULL>>
    THEN [h |-> h, tp |-> NULL, next |-> t, ret |-> NULL]
    ELSE IF v = 0
    THEN tree_insert_replace(h, c, t, next, i,
             av_tree_find(h, c, NodeAt(h, t).child[i + 1], key,
                          <<Undefined, Undefined>>).next[i + 1])
    ELSE tree_insert_descend(h, c, t, key, next, Shr31(v))

\* t is *tp and next is *next on entry; the result carries both on return
av_tree_insert(h, c, t, key, next) ==
    IF t # NULL
    THEN av_tree_insert_at(h, c, t, key, next, cmp(h, c, NodeAt(h, t).elem, key),
                           IF NodeAt(h, t).child[1] = NULL THEN 1 ELSE 0)
    ELSE IF next # NULL
    THEN [h |-> SetElem(h, next, key), tp |-> next, next |-> NULL, ret |-> NULL]
    ELSE [h |-> h, tp |-> NULL, next |-> NULL, ret |-> key]

\* (uint8_t *)p - (uint8_t *)old + (uint8_t *)new: the same distance in bytes
\* from new as p has from old
Rebase(p, old, new) == <<new[1], p[2] - old[2] + new[2]>>

\* p - old + new on AVTreeNode pointers.  The nodes are embedded in runs of
\* slots of SlotSize bytes, so p - old need not be a whole number of
\* sizeof(AVTreeNode): the subtraction is then undefined.  A build that folds
\* the expression gets the byte distance ("exact"); a build that divides by
\* sizeof(AVTreeNode) and multiplies back ("truncating") gets an address that
\* is no node.
NodeRebase(p, old, new) ==
    IF p = Undefined \/ old = Undefined \/ new = Undefined THEN Undefined
    ELSE IF (p[2] - old[2]) % NodeSize = 0 \/ build = "exact" THEN Rebase(p, old, new)
    ELSE Undefined

RECURSIVE av_tree_move(_, _, _, _, _)

\* if (t->child[i]) { av_tree_move(t->child[i] - old + t, t->child[i], ...);
\*                    t->child[i] = t->child[i] - old + t; }
tree_move_child(h, t, old, elem, old_elem, i) ==
    IF NodeAt(h, t).child[i + 1] # NULL
    THEN SetChild(av_tree_move(h, NodeRebase(NodeAt(h, t).child[i + 1], old, t),
                               NodeAt(h, t).child[i + 1], elem, old_elem),
                  t, i, NodeRebase(NodeAt(h, t).child[i + 1], old, t))
    ELSE h

tree_move_elem(h, t, elem, old_elem) ==
    IF NodeAt(h, t).elem # NULL /\ elem # old_elem
    THEN SetElem(h, t, Rebase(NodeAt(h, t).elem, old_elem, elem))
    ELSE h

\* at an address that is no node nothing can be said about what is read
av_tree_move(h, t, old, elem, old_elem) ==
    IF t = Undefined THEN h
    ELSE tree_move_elem(
             tree_move_child(tree_move_child(h, t, old, elem, old_elem, 0),
                             t, old, elem, old_elem, 1),
             t, elem, old_elem)

----------------------------------------------------------------------------
(* The allocator (libavutil/mem.c).  al = [fail, move]: the fail-th          *)
(* allocation from now fails (0: none does); move tells whether a growing   *)
(* realloc returns a new block.                                            *)

Fails(al) == al.fail = 1

Tick(al) == [al EXCEPT !.fail = IF @ > 0 THEN @ - 1 ELSE 0]

\* blocks that are not handed out: block 1 is the arena of the map, block 2
\* stands for every block that was freed while pointers into it remain,
\* block 3 is the arena of the map av_map_clone returned
Pinned == {1, 2, 3}

FreshBlock(h) ==
    CHOOSE b \in 1..MaxBlocks :
        /\ ~h[b].alive /\ b \notin Pinned
        /\ \A b2 \in 1..(b - 1) : h[b2].alive \/ b2 \in Pinned

Extend(mem, n) == [i \in 1..n |-> IF i <= Len(mem) THEN mem[i] ELSE NoCell]

av_free(h, ptr) == IF ptr = NULL THEN h ELSE [h EXCEPT ![ptr[1]] = NoBlock]

\* realloc to newsize bytes, into block b if the block moves
av_realloc(h, ptr, newsize, al, b) ==
    IF ptr # NULL /\ ~al.move
    THEN [h |-> [h EXCEPT ![ptr[1]].mem = Extend(@, newsize \div SlotSize)],
          ptr |-> ptr, size |-> newsize, al |-> Tick(al)]
    ELSE [h |-> [av_free(h, ptr) EXCEPT
                    ![b] = [alive |-> TRUE,
                            mem |-> Extend(IF ptr = NULL THEN << >> ELSE h[ptr[1]].mem,
                                           newsize \div SlotSize)]],
          ptr |-> <<b, 0>>, size |-> newsize, al |-> Tick(al)]

\* the result is [h, ptr, size, al]; a failed av_realloc leaves the block and
\* sets *size to 0
av_fast_realloc(h, ptr, size, min_size, al) ==
    IF min_size <= size THEN [h |-> h, ptr |-> ptr, size |-> size, al |-> al]
    ELSE IF Fails(al) THEN [h |-> h, ptr |-> NULL, size |-> 0, al |-> Tick(al)]
    ELSE av_realloc(h, ptr, min_size + min_size \div 16 + 32, al, FreshBlock(h))

\* the result is [h, ptr, al]
av_memdup(h, ptr, size, al) ==
    IF ptr = NULL THEN [h |-> h, ptr |-> NULL, al |-> al]
    ELSE IF Fails(al) THEN [h |-> h, ptr |-> NULL, al |-> Tick(al)]
    ELSE [h |-> [h EXCEPT ![FreshBlock(h)] =
                    [alive |-> TRUE, mem |-> SubSeq(h[ptr[1]].mem, 1, size \div SlotSize)]],
          ptr |-> <<FreshBlock(h), 0>>, al |-> Tick(al)]

----------------------------------------------------------------------------
(* libavutil/map.c *)

\* freef: whether a free callback was given; the copy callback is stored and
\* never called
av_map_new(cmp_keyvalue, freef) ==
    [cmp_keyvalue |-> cmp_keyvalue, freef |-> freef, count |-> 0, deleted |-> 0,
     next |-> 0, internal_entries_len |-> 0, tree_root |-> NULL,
     internal_entries |-> NULL]

\* no map: what av_map_free leaves of the caller's pointer, and what
\* av_map_clone returns when it fails
NoMap == av_map_new("", FALSE)

\* s->internal_entries + i
EntryPtr(m, i) == <<m.internal_entries[1], m.internal_entries[2] + i * SlotSize>>

\* if (!keyvalue) return NULL; return &keyvalue2internal(keyvalue)->map_entry;
map_entry_of(keyvalue) == IF keyvalue = NULL THEN NULL ELSE keyvalue2internal(keyvalue)

av_map_get(h, m, keyvalue, c) ==
    map_entry_of(av_tree_find2(h, c, m.tree_root, keyvalue, << >>, 0).ret)

\* next_node[1] after the search for prev->key
get_multiple_next(h, c, keyvalue, next_node1) ==
    IF next_node1 = NULL \/ cmp(h, c, next_node1, keyvalue) # 0 THEN NULL
    ELSE map_entry_of(next_node1)

\* f is what av_tree_find2 returned with next_node[4]
get_multiple_first(f) == map_entry_of(IF f.next[3] # NULL THEN f.next[3] ELSE f.ret)

\* prev->key of a tombstoned entry is &deleted_entry, a static zero byte: it
\* compares as the empty string
av_map_get_multiple(h, m, prev, keyvalue, c) ==
    IF prev # NULL
    THEN get_multiple_next(h, c, keyvalue,
             av_tree_find2(h, m.cmp_keyvalue, m.tree_root, EntryAt(h, prev).key,
                           <<NULL, NULL>>, 2).next[2])
    ELSE get_multiple_first(
             av_tree_find2(h, c, m.tree_root, keyvalue, <<NULL, NULL, NULL, NULL>>, 4))

\* av_map_realloc and av_map_clone that point every entry, tombstoned or
\* not, at its own key and value
fix_entry_all(h, I) ==
    [h EXCEPT ![I[1]].mem[SlotIndex(I[2])].key = internal_key(I),
              ![I[1]].mem[SlotIndex(I[2])].value = internal_value(I, EntryAt(h, I).keylen)]

\* new_root[i].map_entry.key = internal_key(new_root + i), and .value
fix_entry(h, I) ==
    IF EntryAt(h, I).key # deleted_entry
    THEN [h EXCEPT ![I[1]].mem[SlotIndex(I[2])].key = internal_key(I),
                   ![I[1]].mem[SlotIndex(I[2])].value = internal_value(I, EntryAt(h, I).keylen)]
    ELSE h

\* the loop of av_map_realloc and av_map_clone that points every entry that
\* is not a tombstone at its own key and value
RECURSIVE fix_entries(_, _, _, _)
fix_entries(h, new_root, i, next) ==
    IF i >= next THEN h
    ELSE fix_entries(fix_entry(h, <<new_root[1], new_root[2] + i * SlotSize>>), new_root,
                     i + internal_entry_len(
                             EntryAt(h, <<new_root[1], new_root[2] + i * SlotSize>>)),
                     next)

\* the arena is a live block that holds the slots below next
ArenaSane(h, m) ==
    IF m.internal_entries = NULL THEN m.next = 0
    ELSE /\ h[m.internal_entries[1]].alive
         /\ m.next <= Len(h[m.internal_entries[1]].mem)

\* every pointer the map follows is into its own live arena
Sane(h, m) ==
    /\ ArenaSane(h, m)
    /\ m.tree_root # NULL => /\ m.internal_entries # NULL
                             /\ m.tree_root[1] = m.internal_entries[1]
    /\ m.internal_entries # NULL =>
            \A i \in 1..Len(h[m.internal_entries[1]].mem), j \in 1..2 :
                h[m.internal_entries[1]].mem[i].child[j][1] \in {0, m.internal_entries[1]}

\* if (new_root != s->internal_entries) { ... } return advance;
realloc_moved(h, m, new_root, new_tree_root, advance, al) ==
    [h |-> fix_entries(
               IF m.tree_root # NULL
               THEN av_tree_move(h, new_tree_root, m.tree_root, new_root, m.internal_entries)
               ELSE h,
               new_root, 0, m.next),
     m |-> [m EXCEPT !.tree_root = new_tree_root, !.internal_entries = new_root],
     ret |-> advance, al |-> al]

\* av_map_realloc that assigns what av_fast_realloc returned to
\* s->internal_entries before it looks at it
realloc_done_assigned(m, advance, r) ==
    IF r.ptr = NULL
    THEN [h |-> r.h, m |-> [m EXCEPT !.internal_entries_len = r.size,
                                     !.internal_entries = NULL],
          ret |-> ENOMEM, al |-> r.al]
    ELSE IF r.ptr # m.internal_entries
    THEN realloc_moved(r.h, [m EXCEPT !.internal_entries_len = r.size], r.ptr,
             IF m.tree_root # NULL
             THEN NodeRebase(m.tree_root, internal_treenode(m.internal_entries),
                             internal_treenode(r.ptr))
             ELSE NULL,
             advance, r.al)
    ELSE [h |-> r.h, m |-> [m EXCEPT !.internal_entries_len = r.size],
          ret |-> advance, al |-> r.al]

\* r is what av_fast_realloc returned, which has set s->internal_entries_len
realloc_done(m, advance, r) ==
    IF r.ptr = NULL
    THEN [h |-> r.h, m |-> [m EXCEPT !.internal_entries_len = r.size],
          ret |-> ENOMEM, al |-> r.al]
    ELSE IF r.ptr # m.internal_entries
    THEN realloc_moved(r.h, [m EXCEPT !.internal_entries_len = r.size], r.ptr,
             IF m.tree_root # NULL
             THEN NodeRebase(m.tree_root, internal_treenode(m.internal_entries),
                             internal_treenode(r.ptr))
             ELSE NULL,
             advance, r.al)
    ELSE [h |-> r.h, m |-> [m EXCEPT !.internal_entries_len = r.size],
          ret |-> advance, al |-> r.al]

\* av_fast_realloc(ptr, &size, nslots * sizeof(AVMapInternalEntry)).  The
\* product is a size_t; one past max_alloc_size, which is INT_MAX, is refused
\* before any allocation is tried, with *size set to 0
fast_realloc_slots(h, ptr, size, nslots, al) ==
    IF nslots > INT32_MAX \div SlotSize
    THEN [h |-> h, ptr |-> NULL, size |-> 0, al |-> al]
    ELSE av_fast_realloc(h, ptr, size, nslots * SlotSize, al)

realloc_advance(m, advance, al, h) ==
    IF advance > (INT32_MAX - m.next) \div SlotSize
    THEN [h |-> h, m |-> m, ret |-> ENOMEM, al |-> al]
    ELSE realloc_done(m, advance,
             fast_realloc_slots(h, m.internal_entries, m.internal_entries_len,
                                m.next + advance, al))

\* the result is [h, m, ret, al]
av_map_realloc(h, m, extra_elements, extra_space, al) ==
    realloc_advance(m,
        extra_elements
        + (extra_space + extra_elements * (SlotSize + NodeSize - 1)) \div SlotSize,
        al, h)

RECURSIVE iterate_from(_, _, _)

\* av_map_iterate without the loop that skips tombstoned runs
iterate_from_noskip(h, m, off) ==
    IF off = m.next * SlotSize THEN NULL
    ELSE <<m.internal_entries[1], m.internal_entries[2] + off>>

\* while (I < s->internal_entries + s->next && I->map_entry.key == &deleted_entry)
\* I += internal_entry_len(I); the result is NULL at s->next, else the entry
iterate_from(h, m, off) ==
    IF off < m.next * SlotSize
       /\ EntryAt(h, <<m.internal_entries[1], m.internal_entries[2] + off>>).key = deleted_entry
    THEN iterate_from(h, m, off + SlotSize * internal_entry_len(
                        EntryAt(h, <<m.internal_entries[1], m.internal_entries[2] + off>>)))
    ELSE IF off = m.next * SlotSize THEN NULL
    ELSE <<m.internal_entries[1], m.internal_entries[2] + off>>

av_map_iterate(h, m, prev) ==
    IF prev # NULL
    THEN iterate_from(h, m, prev[2] + SlotSize * internal_entry_len(EntryAt(h, prev))
                            - m.internal_entries[2])
    ELSE iterate_from(h, m, 0)

av_map_count(m) == m.count

\* the cells of a new run: header with zeroed node, then the rest of the run
WriteEntry(h, I, key, keylen, value, valuelen, advance) ==
    [h EXCEPT ![I[1]].mem =
        [j \in 1..Len(@) |->
            IF j = SlotIndex(I[2])
            THEN [kind |-> "head", key |-> internal_key(I),
                  value |-> internal_value(I, keylen),
                  keylen |-> keylen, valuelen |-> valuelen,
                  child |-> <<NULL, NULL>>, elem |-> NULL, state |-> 0,
                  kv |-> SubSeq(key, 1, keylen) \o SubSeq(value, 1, valuelen)]
            ELSE IF j > SlotIndex(I[2]) /\ j < SlotIndex(I[2]) + advance
            THEN BodyCell
            ELSE @[j]]]

RECURSIVE av_map_add(_, _, _, _, _, _, _, _)

RECURSIVE copy_loop(_, _, _, _, _, _)

\* a is what av_map_add(dst, t->key, ...) returned
copy_added(a, src, t, bak) ==
    IF a.ub
    THEN [h |-> a.h, dst |-> a.m, ret |-> 0, al |-> a.al, ub |-> TRUE]
    ELSE IF a.ret < 0
    THEN [h |-> av_free(a.h, a.m.internal_entries), dst |-> bak,
          ret |-> a.ret, al |-> a.al, ub |-> FALSE]
    ELSE copy_loop(a.h, a.m, src, av_map_iterate(a.h, src, t), bak, a.al)

\* the loop of av_map_copy from entry t of src on; bak is the saved struct.
\* The result is [h, dst, ret, al, ub].
copy_loop(h, dst, src, t, bak, al) ==
    IF t = NULL
    THEN [h |-> av_free(h, bak.internal_entries), dst |-> dst, ret |-> 0, al |-> al,
          ub |-> FALSE]
    ELSE copy_added(
             av_map_add(h, dst, SubSeq(EntryAt(h, t).kv, 1, EntryAt(h, t).keylen),
                        EntryAt(h, t).keylen,
                        Skip(EntryAt(h, t).kv, EntryAt(h, t).keylen),
                        EntryAt(h, t).valuelen, 0, al),
             src, t, bak)

\* d is what av_memdup(bak->internal_entries, bak->internal_entries_len)
\* returned
copy_saved(d, dst, src) ==
    copy_loop(d.h, dst, src, av_map_iterate(d.h, src, NULL),
              [dst EXCEPT !.internal_entries = d.ptr], d.al)

\* the result is [h, dst, ret, al, ub]
av_map_copy(h, dst, src, al) ==
    IF Fails(al) THEN [h |-> h, dst |-> dst, ret |-> ENOMEM, al |-> Tick(al), ub |-> FALSE]
    ELSE copy_saved(av_memdup(h, dst.internal_entries, dst.internal_entries_len, Tick(al)),
                    dst, src)

\* if (s->freef) for (int i = 0; i < s->count; i++)
\*     s->freef(&s->internal_entries[i].map_entry);
\* the pointers the callback is called with, in order
freef_loop(m) ==
    IF m.freef THEN [i \in 1..m.count |-> EntryPtr(m, i - 1)] ELSE << >>

\* cp is what av_map_copy(news, s) returned
del_rebuilt(cp, m) ==
    IF cp.ub
    THEN [h |-> cp.h, m |-> m, ret |-> 1, al |-> cp.al, rebuilt |-> FALSE, freed |-> << >>, ub |-> TRUE]
    ELSE IF cp.ret < 0
    THEN [h |-> av_free(cp.h, cp.dst.internal_entries), m |-> m,
          ret |-> 1, al |-> cp.al, rebuilt |-> FALSE, freed |-> << >>, ub |-> FALSE]
    ELSE [h |-> av_free(cp.h, m.internal_entries), m |-> cp.dst,
          ret |-> 1, al |-> cp.al, rebuilt |-> TRUE, freed |-> freef_loop(m),
          ub |-> FALSE]

\* av_map_del that rebuilds as soon as s->deleted >= s->count
del_rebuild_early(h, m, flags, al) ==
    IF (flags \div AV_MAP_ALLOW_REBUILD) % 2 = 1 /\ m.deleted >= m.count
    THEN IF Fails(al)
         THEN [h |-> h, m |-> m, ret |-> 1, al |-> Tick(al), rebuilt |-> FALSE, freed |-> << >>, ub |-> FALSE]
         ELSE del_rebuilt(av_map_copy(h, av_map_new(m.cmp_keyvalue, m.freef), m, Tick(al)), m)
    ELSE [h |-> h, m |-> m, ret |-> 1, al |-> al, rebuilt |-> FALSE, freed |-> << >>, ub |-> FALSE]

\* if ((flags & AV_MAP_ALLOW_REBUILD) && s->deleted > s->count) { ... } return 1;
del_rebuild(h, m, flags, al) ==
    IF (flags \div AV_MAP_ALLOW_REBUILD) % 2 = 1 /\ m.deleted > m.count
    THEN IF Fails(al)
         THEN [h |-> h, m |-> m, ret |-> 1, al |-> Tick(al), rebuilt |-> FALSE, freed |-> << >>, ub |-> FALSE]
         ELSE del_rebuilt(av_map_copy(h, av_map_new(m.cmp_keyvalue, m.freef), m, Tick(al)), m)
    ELSE [h |-> h, m |-> m, ret |-> 1, al |-> al, rebuilt |-> FALSE, freed |-> << >>, ub |-> FALSE]

\* internal_entry->map_entry.key = &deleted_entry; s->count--; s->deleted++;
del_tombstone(h, m, internal_entry, flags, al) ==
    del_rebuild([h EXCEPT ![internal_entry[1]].mem[SlotIndex(internal_entry[2])].key
                              = deleted_entry],
                [m EXCEPT !.count = @ - 1, !.deleted = @ + 1], flags, al)

\* cmp != s->cmp_keyvalue, after av_tree_find2 returned old_keyvalue
del_found(h, m, old_keyvalue, flags, al, ti) ==
    del_tombstone(ti.h, [m EXCEPT !.tree_root = ti.tp], keyvalue2internal(old_keyvalue),
                  flags, al)

del_other_cmp(h, m, old_keyvalue, flags, al) ==
    IF old_keyvalue = NULL
    THEN [h |-> h, m |-> m, ret |-> 0, al |-> al, rebuilt |-> FALSE, freed |-> << >>, ub |-> FALSE]
    ELSE del_found(h, m, old_keyvalue, flags, al,
                   av_tree_insert(h, m.cmp_keyvalue, m.tree_root, old_keyvalue, NULL))

\* cmp == s->cmp_keyvalue, after av_tree_insert returned with next in ti.next
del_same_cmp(m, flags, al, ti) ==
    IF ti.next = NULL
    THEN [h |-> ti.h, m |-> [m EXCEPT !.tree_root = ti.tp], ret |-> 0, al |-> al,
          rebuilt |-> FALSE, freed |-> << >>, ub |-> FALSE]
    ELSE del_tombstone(ti.h, [m EXCEPT !.tree_root = ti.tp],
                       keyvalue2internal(NodeAt(ti.h, ti.next).elem), flags, al)

\* the result is [h, m, ret, al, rebuilt, freed, ub]
av_map_del(h, m, keyvalue, c, flags, al) ==
    IF c # m.cmp_keyvalue
    THEN del_other_cmp(h, m, av_tree_find2(h, c, m.tree_root, keyvalue, << >>, 0).ret,
                       flags, al)
    ELSE del_same_cmp(m, flags, al,
                      av_tree_insert(h, m.cmp_keyvalue, m.tree_root, keyvalue, NULL))

\* t2 is what the second av_tree_insert returned
add_reinserted(t2, m, advance, al) ==
    [h |-> t2.h,
     m |-> [m EXCEPT !.tree_root = t2.tp, !.next = @ + advance, !.count = @ + 1],
     ret |-> 2, al |-> al, ub |-> FALSE]

\* d is what av_map_del(s, entry->key, s->cmp_keyvalue, flags) returned.  After
\* a rebuild entry and next point into the arena the rebuild freed.
add_replaced(d, ekey, next, advance) ==
    IF d.rebuilt \/ d.ub
    THEN [h |-> d.h, m |-> [d.m EXCEPT !.next = @ + advance, !.count = @ + 1],
          ret |-> 2, al |-> d.al, ub |-> TRUE]
    ELSE add_reinserted(av_tree_insert(d.h, d.m.cmp_keyvalue, d.m.tree_root, ekey, next),
                        d.m, advance, d.al)

\* av_map_add that takes the slots of the new entry also when it returns 0
add_inserted_taken(ti, m, ekey, advance, flags, al) ==
    IF ti.ret # ekey /\ ti.ret # NULL
    THEN IF (flags \div AV_MAP_REPLACE) % 2 = 1
         THEN add_replaced(av_map_del(ti.h, [m EXCEPT !.tree_root = ti.tp], ekey,
                                      m.cmp_keyvalue, flags, al),
                           ekey, ti.next, advance)
         ELSE [h |-> ti.h, m |-> [m EXCEPT !.tree_root = ti.tp, !.next = @ + advance],
               ret |-> 0, al |-> al, ub |-> FALSE]
    ELSE [h |-> ti.h,
          m |-> [m EXCEPT !.tree_root = ti.tp, !.next = @ + advance, !.count = @ + 1],
          ret |-> 1, al |-> al, ub |-> FALSE]

\* ti is what av_tree_insert(&s->tree_root, entry->key, s->cmp_keyvalue, &next)
\* returned; ekey is entry->key
add_inserted(ti, m, ekey, advance, flags, al) ==
    IF ti.ret # ekey /\ ti.ret # NULL
    THEN IF (flags \div AV_MAP_REPLACE) % 2 = 1
         THEN add_replaced(av_map_del(ti.h, [m EXCEPT !.tree_root = ti.tp], ekey,
                                      m.cmp_keyvalue, flags, al),
                           ekey, ti.next, advance)
         ELSE [h |-> ti.h, m |-> [m EXCEPT !.tree_root = ti.tp], ret |-> 0, al |-> al,
               ub |-> FALSE]
    ELSE [h |-> ti.h,
          m |-> [m EXCEPT !.tree_root = ti.tp, !.next = @ + advance, !.count = @ + 1],
          ret |-> 1, al |-> al, ub |-> FALSE]

\* the entry is written at I = s->internal_entries + s->next
add_insert(h, m, I, advance, flags, al) ==
    add_inserted(av_tree_insert(h, m.cmp_keyvalue, m.tree_root, internal_key(I),
                                internal_treenode(I)),
                 m, internal_key(I), advance, flags, al)

\* ra is what av_map_realloc(s, 1, keylen + valuelen) returned
add_reserved(ra, key, keylen, value, valuelen, flags) ==
    IF ra.ret < 0
    THEN [h |-> ra.h, m |-> ra.m, ret |-> ra.ret, al |-> ra.al, ub |-> FALSE]
    ELSE IF ~Sane(ra.h, ra.m)
    THEN \* the relocation left a tree pointer that is no node
         [h |-> ra.h, m |-> ra.m, ret |-> 0, al |-> ra.al, ub |-> TRUE]
    ELSE add_insert(WriteEntry(ra.h, EntryPtr(ra.m, ra.m.next), key, keylen, value,
                               valuelen, ra.ret),
                    ra.m, EntryPtr(ra.m, ra.m.next), ra.ret, flags, ra.al)

\* the result is [h, m, ret, al, ub]; ub: the call read or wrote through a
\* pointer into freed memory or one that is no object, so that its outcome is
\* undefined
av_map_add(h, m, key, keylen, value, valuelen, flags, al) ==
    add_reserved(av_map_realloc(h, m, 1, keylen + valuelen, al),
                 key, keylen, value, valuelen, flags)

\* the result is [h, freed]: the heap without the arena, and the pointers the
\* free callback was called with, in order; *sp is NULL afterwards
av_map_free(h, m) == [h |-> av_free(h, m.internal_entries), freed |-> freef_loop(m)]

\* r is what the relocation of the tree and of the key and value pointers
\* into the copy of the arena made
clone_moved(r) == [h |-> r.h, dst |-> r.m, al |-> r.al, ub |-> FALSE]

\* d is what av_memdup(s->internal_entries, s->internal_entries_len) returned.
\* A copy shorter than the slots in use is read and written past its end.
clone_copied(d, m) ==
    IF d.ptr = NULL THEN [h |-> d.h, dst |-> NoMap, al |-> d.al, ub |-> FALSE]
    ELSE IF m.next > Len(d.h[d.ptr[1]].mem)
    THEN [h |-> d.h, dst |-> [m EXCEPT !.internal_entries = d.ptr], al |-> d.al,
          ub |-> TRUE]
    ELSE clone_moved(
             realloc_moved(d.h, m, d.ptr,
                 IF m.tree_root # NULL
                 THEN NodeRebase(m.tree_root, internal_treenode(m.internal_entries),
                                 internal_treenode(d.ptr))
                 ELSE NULL,
                 0, d.al))

\* the result is [h, dst, al, ub]; dst = NoMap: av_map_clone returned NULL
av_map_clone(h, m, al) ==
    IF Fails(al) THEN [h |-> h, dst |-> NoMap, al |-> Tick(al), ub |-> FALSE]
    ELSE clone_copied(av_memdup(h, m.internal_entries, m.internal_entries_len, Tick(al)),
                      m)

----------------------------------------------------------------------------
(* Block numbers are arbitrary.  After each call the blocks are renamed:     *)
(* the arena of the map is block 1, every freed block is block 2.  Block 3,  *)
(* the arena of the clone, keeps its number.                                *)

CanonPtr(p, a) == IF p[1] < 1 THEN p ELSE IF p[1] = a THEN <<1, p[2]>> ELSE <<2, p[2]>>

CanonCell(x, a) ==
    [x EXCEPT !.key = CanonPtr(@, a), !.value = CanonPtr(@, a), !.elem = CanonPtr(@, a),
              !.child = <<CanonPtr(@[1], a), CanonPtr(@[2], a)>>]

CanonHeap(h, m) ==
    [b \in 1..MaxBlocks |->
        IF b = 1 /\ m.internal_entries # NULL /\ h[m.internal_entries[1]].alive
        THEN [alive |-> TRUE,
              mem |-> [i \in 1..Len(h[m.internal_entries[1]].mem) |->
                          CanonCell(h[m.internal_entries[1]].mem[i], m.internal_entries[1])]]
        ELSE IF b = 3 THEN h[3]
        ELSE NoBlock]

CanonMap(m) ==
    [m EXCEPT !.tree_root = CanonPtr(@, m.internal_entries[1]),
              !.internal_entries = CanonPtr(@, m.internal_entries[1])]

\* blocks a and b exchange their numbers
Renumber(p, a, b) ==
    IF p[1] = a THEN <<b, p[2]>> ELSE IF p[1] = b THEN <<a, p[2]>> ELSE p

RenumberCell(x, a, b) ==
    [x EXCEPT !.key = Renumber(@, a, b), !.value = Renumber(@, a, b),
              !.elem = Renumber(@, a, b),
              !.child = <<Renumber(@[1], a, b), Renumber(@[2], a, b)>>]

RenumberHeap(h, a, b) ==
    [i \in 1..MaxBlocks |->
        [alive |-> h[Renumber(<<i, 0>>, a, b)[1]].alive,
         mem |-> [j \in 1..Len(h[Renumber(<<i, 0>>, a, b)[1]].mem) |->
                     RenumberCell(h[Renumber(<<i, 0>>, a, b)[1]].mem[j], a, b)]]]

RenumberMap(m, a, b) ==
    [m EXCEPT !.tree_root = Renumber(@, a, b), !.internal_entries = Renumber(@, a, b)]

----------------------------------------------------------------------------
(* What a caller can observe of a map *)

NoView == [found |-> "no", keylen |-> 0, valuelen |-> 0, kv |-> << >>, dead |-> FALSE]

\* what a call shows whose behaviour is undefined
UndefinedView == [NoView EXCEPT !.found = "undefined"]

\* what a caller sees who is handed entries without end
EndlessView == [NoView EXCEPT !.found = "endless"]

\* the entry a returned AVMapEntry pointer shows; dead: its key is
\* &deleted_entry
View(h, e) ==
    IF e = NULL THEN NoView
    ELSE [found |-> "yes", keylen |-> EntryAt(h, e).keylen,
          valuelen |-> EntryAt(h, e).valuelen, kv |-> EntryAt(h, e).kv,
          dead |-> EntryAt(h, e).key = deleted_entry]

Get(h, m, keyvalue, c) ==
    IF Sane(h, m) THEN View(h, av_map_get(h, m, keyvalue, c)) ELSE UndefinedView

RECURSIVE GetMultipleFrom(_, _, _, _, _, _)

\* e is what av_map_get_multiple returned
GetMultipleGot(h, m, e, keyvalue, c, n) ==
    IF e = NULL THEN << >>
    ELSE IF n = 0 THEN <<EndlessView>>
    ELSE <<View(h, e)>> \o GetMultipleFrom(h, m, e, keyvalue, c, n - 1)

\* the entries av_map_get_multiple returns from prev on, in order, to a caller
\* who gives up after n entries
GetMultipleFrom(h, m, prev, keyvalue, c, n) ==
    GetMultipleGot(h, m, av_map_get_multiple(h, m, prev, keyvalue, c), keyvalue, c, n)

GetMultiple(h, m, keyvalue, c) ==
    IF Sane(h, m) THEN GetMultipleFrom(h, m, NULL, keyvalue, c, MaxSlots)
    ELSE <<UndefinedView>>

RECURSIVE IterateFrom(_, _, _)

\* e is what av_map_iterate returned
IterateGot(h, m, e) ==
    IF e = NULL THEN << >> ELSE <<View(h, e)>> \o IterateFrom(h, m, e)

\* the entries av_map_iterate returns after prev, in order
IterateFrom(h, m, prev) == IterateGot(h, m, av_map_iterate(h, m, prev))

Iterate(h, m) ==
    IF ArenaSane(h, m) THEN IterateFrom(h, m, NULL) ELSE <<UndefinedView>>

\* the comparators a caller may look up with in a map built with ckv
LookupCmps(ckv) ==
    IF ckv = "strcmp" THEN {"strcmp"}
    ELSE {"av_map_supercmp_keyvalue", "av_map_supercmp_key", "av_strcasecmp"}

\* the strings a caller passes with comparator c
ArgsFor(c) ==
    IF c = "av_map_supercmp_keyvalue" THEN KeyvalueArgs ELSE KeyArgs

----------------------------------------------------------------------------
(* The entries that were added and not deleted since, oldest first *)

Remove(q, kv) ==
    LET hit == {i \in 1..Len(q) : q[i] = kv}
    IN  IF hit = {} THEN q
        ELSE LET i == CHOOSE j \in hit : \A k \in hit : j <= k
             IN  SubSeq(q, 1, i - 1) \o SubSeq(q, i + 1, Len(q))

Equal(q, c, kv) == {i \in 1..Len(q) : Compare(c, kv, q[i]) = 0}

RECURSIVE RemoveEqual(_, _, _)
RemoveEqual(q, c, kv) ==
    IF q = << >> THEN q
    ELSE IF Compare(c, kv, Head(q)) = 0 THEN RemoveEqual(Tail(q), c, kv)
    ELSE <<Head(q)>> \o RemoveEqual(Tail(q), c, kv)

RECURSIVE Merge(_, _, _)
Merge(q, c, add) ==
    IF add = << >> THEN q
    ELSE Merge(IF Equal(q, c, Head(add)) = {} THEN Append(q, Head(add)) ELSE q, c, Tail(add))



\* the entry a successful av_map_del(keyvalue, c) takes out of q: the one the
\* map found if the caller holds it, else the oldest one equal to keyvalue
RemoveFound(q, c, keyvalue, found) ==
    IF found \in {q[i] : i \in Equal(q, c, keyvalue)} THEN Remove(q, found)
    ELSE IF Equal(q, c, keyvalue) # {}
    THEN Remove(q, q[CHOOSE i \in Equal(q, c, keyvalue) :
                        \A j \in Equal(q, c, keyvalue) : i <= j])
    ELSE q

----------------------------------------------------------------------------
(* The state machine: one map s, the caller's iteration cursor cur, the     *)
(* last call with its result, and the entries the caller holds to be in the  *)
(* map                                                                      *)

MapCmps == {"strcmp", "av_map_supercmp_keyvalue"}

InPlace == [fail |-> 0, move |-> FALSE]

Moved == [fail |-> 0, move |-> TRUE]

FailAt(n) == [fail |-> n, move |-> FALSE]

\* flags and allocator behaviour of one av_map_add call
AddModes ==
    ({0, AV_MAP_REPLACE, AV_MAP_REPLACE + AV_MAP_ALLOW_REBUILD} \X {InPlace, Moved})
    \cup {<<0, FailAt(1)>>}

\* flags and allocator behaviour of one av_map_del call
DelModes ==
    {<<0, InPlace>>, <<AV_MAP_ALLOW_REBUILD, InPlace>>,
     <<AV_MAP_ALLOW_REBUILD, FailAt(1)>>, <<AV_MAP_ALLOW_REBUILD, FailAt(3)>>}

ReallocModes == {InPlace, Moved, FailAt(1)}

CopyModes == {InPlace, Moved, FailAt(1), FailAt(2), FailAt(3), FailAt(4)}

\* the maps av_map_copy is called with as src, as the entries added to them
CopySources == {
    << <<<<97, 0>>, <<120, 0>>>> >>,
    << <<<<65, 0>>, <<120, 0>>>>, <<<<97, 0>>, <<120, 0>>>> >> }

\* freed: the pointers the free callback was called with; failed: whether an
\* allocation of the call failed; moved: whether the call left the map in
\* another arena than the one it had, by a relocation or by a rebuild
NoLast == [op |-> "av_map_new", ret |-> 0, kv |-> << >>, c |-> "", flags |-> 0,
           freed |-> << >>, failed |-> FALSE, moved |-> FALSE]

\* the arena of m is not the arena a the map had before the call
ArenaMoved(a, m) == a # NULL /\ m.internal_entries # a

\* whether an allocation failed between allocator states al and after
Failed(al, after) == al.fail > 0 /\ after.fail = 0

\* slots one entry of len key and value bytes takes
Advance(len) == 1 + (len + SlotSize + NodeSize - 1) \div SlotSize

RECURSIVE TotalAdvance(_)
TotalAdvance(q) ==
    IF q = << >> THEN 0
    ELSE Advance(Len(Head(q)[1]) + Len(Head(q)[2])) + TotalAdvance(Tail(q))

RECURSIVE Keyvalues(_)
Keyvalues(q) ==
    IF q = << >> THEN << >> ELSE <<Head(q)[1] \o Head(q)[2]>> \o Keyvalues(Tail(q))

RECURSIVE BuildMap(_, _, _)

\* a is what av_map_add returned
BuildAdded(a, q) == BuildMap(a.h, a.m, Tail(q))

\* a map made by av_map_new and one av_map_add per entry of q
BuildMap(h, m, q) ==
    IF q = << >> THEN [h |-> h, m |-> m]
    ELSE BuildAdded(av_map_add(h, m, Head(q)[1], Len(Head(q)[1]),
                               Head(q)[2], Len(Head(q)[2]), 0, InPlace), q)

Init ==
    /\ heap = [b \in 1..MaxBlocks |-> NoBlock]
    /\ s \in {av_map_new(c, FALSE) : c \in MapCmps}
    /\ live = << >>
    /\ cur = NULL
    /\ curok = [inscope |-> FALSE, inplace |-> FALSE]
    /\ last = NoLast
    /\ ub = FALSE
    /\ build \in {"exact", "truncating"}
    /\ calls = 0
    /\ clone = NoMap
    /\ clonelive = << >>

\* a call on a map that holds a pointer into freed memory, or one that is no
\* object, has undefined behaviour
Corrupt(op) ==
    /\ ub' = TRUE
    /\ last' = [NoLast EXCEPT !.op = op]
    /\ UNCHANGED <<heap, s, live, cur, curok, clone, clonelive>>

Add(key, value, flags, al) ==
    /\ ~ub /\ s # NoMap /\ calls < MaxCalls
    /\ s.next + Advance(Len(key) + Len(value)) <= MaxSlots
    /\ calls' = calls + 1 /\ build' = build
    /\ IF ~Sane(heap, s) THEN Corrupt("av_map_add")
       ELSE \E r \in {av_map_add(heap, s, key, Len(key), value, Len(value), flags, al)} :
            /\ heap' = CanonHeap(r.h, r.m)
            /\ s' = CanonMap(r.m)
            /\ ub' = r.ub
            /\ live' = IF r.ret = 1 THEN Append(live, key \o value)
                       ELSE IF r.ret = 2
                       THEN Append(RemoveEqual(live, s.cmp_keyvalue, key \o value),
                                   key \o value)
                       ELSE live
            /\ cur' = CanonPtr(cur, r.m.internal_entries[1])
            /\ curok' = [curok EXCEPT !.inplace = @ /\ r.m.internal_entries = s.internal_entries,
                                      !.inscope = @ /\ ~r.ub]
            /\ last' = [op |-> "av_map_add", ret |-> r.ret, kv |-> key \o value,
                        c |-> s.cmp_keyvalue, flags |-> flags,
                        freed |-> << >>, failed |-> Failed(al, r.al),
                        moved |-> ArenaMoved(s.internal_entries, r.m)]
            /\ UNCHANGED <<clone, clonelive>>

Del(keyvalue, c, flags, al) ==
    /\ ~ub /\ s # NoMap /\ calls < MaxCalls
    /\ calls' = calls + 1 /\ build' = build
    /\ IF ~Sane(heap, s) THEN Corrupt("av_map_del")
       ELSE \E r \in {av_map_del(heap, s, keyvalue, c, flags, al)},
               found \in {av_tree_find2(heap, c, s.tree_root, keyvalue, << >>, 0).ret} :
            /\ heap' = CanonHeap(r.h, r.m)
            /\ s' = CanonMap(r.m)
            /\ ub' = r.ub
            /\ live' = IF r.ret = 1
                       THEN RemoveFound(live, c, Bytes(heap, keyvalue), Bytes(heap, found))
                       ELSE live
            /\ cur' = CanonPtr(cur, r.m.internal_entries[1])
            /\ curok' = [curok EXCEPT !.inplace = @ /\ r.m.internal_entries = s.internal_entries,
                                      !.inscope = @ /\ flags = 0]
            /\ last' = [op |-> "av_map_del", ret |-> r.ret, kv |-> Bytes(heap, keyvalue),
                        c |-> c, flags |-> flags,
                        freed |-> r.freed, failed |-> Failed(al, r.al),
                        moved |-> r.rebuilt]
            /\ UNCHANGED <<clone, clonelive>>

Realloc(extra_elements, extra_space, al) ==
    /\ ~ub /\ s # NoMap /\ calls < MaxCalls
    /\ s.next + Advance(extra_space) <= MaxSlots
    /\ calls' = calls + 1 /\ build' = build
    /\ IF ~Sane(heap, s) THEN Corrupt("av_map_realloc")
       ELSE \E r \in {av_map_realloc(heap, s, extra_elements, extra_space, al)} :
            /\ heap' = CanonHeap(r.h, r.m)
            /\ s' = CanonMap(r.m)
            /\ ub' = FALSE
            /\ live' = live
            /\ cur' = CanonPtr(cur, r.m.internal_entries[1])
            /\ curok' = [inscope |-> FALSE,
                         inplace |-> curok.inplace /\ r.m.internal_entries = s.internal_entries]
            /\ last' = [NoLast EXCEPT !.op = "av_map_realloc", !.ret = r.ret,
                                      !.kv = <<extra_elements, extra_space>>,
                                      !.failed = Failed(al, r.al),
                                      !.moved = ArenaMoved(s.internal_entries, r.m)]
            /\ UNCHANGED <<clone, clonelive>>

\* src is the map made from q; r is what av_map_copy(s, src) returned;
\* av_map_free(&src) follows
Copied(r, src, q) ==
    /\ heap' = CanonHeap(av_free(r.h, src.m.internal_entries), r.dst)
    /\ s' = CanonMap(r.dst)
    /\ ub' = r.ub
    /\ live' = IF r.ret = 0 /\ ~r.ub THEN Merge(live, s.cmp_keyvalue, Keyvalues(q)) ELSE live
    /\ cur' = CanonPtr(cur, r.dst.internal_entries[1])
    /\ curok' = [inscope |-> FALSE,
                 inplace |-> curok.inplace /\ r.dst.internal_entries = s.internal_entries]
    /\ last' = [NoLast EXCEPT !.op = "av_map_copy", !.ret = r.ret,
                              !.moved = ArenaMoved(s.internal_entries, r.dst)]
    /\ UNCHANGED <<clone, clonelive>>

\* src = av_map_new(); av_map_add(src, ...) per entry of q; av_map_copy(s, src);
\* av_map_free(&src)
Copy(q, al) ==
    /\ ~ub /\ s # NoMap /\ calls < MaxCalls
    /\ s.next + TotalAdvance(q) <= MaxSlots
    /\ calls' = calls + 1 /\ build' = build
    /\ IF ~Sane(heap, s) THEN Corrupt("av_map_copy")
       ELSE \E src \in {BuildMap(heap, av_map_new(s.cmp_keyvalue, FALSE), q)} :
            \E r \in {av_map_copy(src.h, s, src.m, al)} : Copied(r, src, q)

\* cur = av_map_iterate(s, cur)
IterNext ==
    /\ ~ub /\ s # NoMap /\ calls < MaxCalls
    /\ calls' = calls + 1 /\ build' = build
    /\ IF ~ArenaSane(heap, s) \/ (cur # NULL /\ cur[1] # s.internal_entries[1])
       THEN Corrupt("av_map_iterate")
       ELSE /\ cur' = av_map_iterate(heap, s, cur)
            /\ curok' = [inscope |-> cur' # NULL, inplace |-> cur' # NULL]
            /\ last' = [NoLast EXCEPT !.op = "av_map_iterate"]
            /\ UNCHANGED <<heap, s, live, ub, clone, clonelive>>

\* clone = av_map_clone(s); ret 1: a map was returned
Clone(al) ==
    /\ ~ub /\ s # NoMap /\ clone = NoMap /\ calls < MaxCalls
    /\ calls' = calls + 1 /\ build' = build
    /\ IF ~Sane(heap, s) THEN Corrupt("av_map_clone")
       ELSE \E r \in {av_map_clone(heap, s, al)} :
            /\ heap' = IF r.dst = NoMap THEN heap
                       ELSE RenumberHeap(r.h, r.dst.internal_entries[1], 3)
            /\ clone' = RenumberMap(r.dst, r.dst.internal_entries[1], 3)
            /\ clonelive' = IF r.dst = NoMap THEN << >> ELSE live
            /\ ub' = r.ub
            /\ last' = [NoLast EXCEPT !.op = "av_map_clone",
                                      !.ret = IF r.dst = NoMap THEN 0 ELSE 1,
                                      !.failed = Failed(al, r.al)]
            /\ UNCHANGED <<s, live, cur, curok>>

\* the caller turns to the map av_map_clone has just returned: s and clone
\* exchange their roles, so that the calls that follow are made on the clone
Swap ==
    /\ ~ub /\ clone # NoMap /\ last.op = "av_map_clone"
    /\ heap' = RenumberHeap(heap, 1, 3)
    /\ s' = RenumberMap(clone, 1, 3)
    /\ clone' = RenumberMap(s, 1, 3)
    /\ live' = clonelive
    /\ clonelive' = live
    /\ cur' = NULL
    /\ curok' = [inscope |-> FALSE, inplace |-> FALSE]
    /\ last' = [NoLast EXCEPT !.op = "swap"]
    /\ UNCHANGED <<ub, build, calls>>

\* av_map_free(&s)
Free ==
    /\ ~ub /\ s # NoMap /\ calls < MaxCalls
    /\ calls' = calls + 1 /\ build' = build
    /\ IF ~ArenaSane(heap, s) THEN Corrupt("av_map_free")
       ELSE \E r \in {av_map_free(heap, s)} :
            /\ heap' = CanonHeap(r.h, NoMap)
            /\ s' = NoMap
            /\ ub' = FALSE
            /\ live' = << >>
            /\ cur' = CanonPtr(cur, 0)
            /\ curok' = [inscope |-> FALSE, inplace |-> FALSE]
            /\ last' = [NoLast EXCEPT !.op = "av_map_free", !.freed = r.freed]
            /\ UNCHANGED <<clone, clonelive>>

\* a key length whose reservation, with a value of up to 4 bytes, passes
\* INT32_MAX bytes
TooLong == INT32_MAX - 61

\* av_map_add(s, key, TooLong, value, valuelen, flags) with a key of TooLong
\* bytes, of which the call reads none
AddTooLong(key, value, flags) ==
    /\ ~ub /\ s # NoMap /\ calls < MaxCalls
    /\ calls' = calls + 1 /\ build' = build
    /\ IF ~Sane(heap, s) THEN Corrupt("av_map_add")
       ELSE \E r \in {av_map_add(heap, s, key, TooLong, value, Len(value), flags, InPlace)} :
            /\ heap' = CanonHeap(r.h, r.m)
            /\ s' = CanonMap(r.m)
            /\ ub' = r.ub
            /\ live' = live
            /\ cur' = CanonPtr(cur, r.m.internal_entries[1])
            /\ curok' = [curok EXCEPT !.inplace = @ /\ r.m.internal_entries = s.internal_entries,
                                      !.inscope = @ /\ ~r.ub]
            /\ last' = [op |-> "av_map_add", ret |-> r.ret, kv |-> key \o value,
                        c |-> s.cmp_keyvalue, flags |-> flags, freed |-> << >>,
                        failed |-> FALSE,
                        moved |-> ArenaMoved(s.internal_entries, r.m)]
            /\ UNCHANGED <<clone, clonelive>>

\* any av_map_add of a caller's pair
AddCall == \E e \in Entries, mode \in AddModes : Add(e[1], e[2], mode[1], mode[2])

\* any av_map_del with a comparator the map allows
DelCall ==
    \E c \in LookupCmps(s.cmp_keyvalue), mode \in DelModes :
        \E keyvalue \in ArgsFor(c) : Del(keyvalue, c, mode[1], mode[2])

\* av_map_realloc(s, 1, 4)
ReallocCall == \E al \in ReallocModes : Realloc(1, 4, al)

CopyCall == \E q \in CopySources, al \in CopyModes : Copy(q, al)

Next ==
    \/ AddCall
    \/ DelCall
    \/ ReallocCall
    \/ CopyCall

Spec == Init /\ [][Next]_vars

\* adds and deletes made while the caller iterates over the map
NextCursor ==
    \/ IterNext
    \/ AddCall
    \/ DelCall

SpecCursor == Init /\ [][NextCursor]_vars

\* any av_map_del with AV_MAP_ALLOW_REBUILD
DelRebuildCall ==
    \E c \in LookupCmps(s.cmp_keyvalue), mode \in DelModes :
        \E keyvalue \in ArgsFor(c) :
            mode[1] = AV_MAP_ALLOW_REBUILD /\ Del(keyvalue, c, mode[1], mode[2])

\* adds, and deletes that allow the rebuild
NextRebuild ==
    \/ AddCall
    \/ DelRebuildCall

SpecRebuild == Init /\ [][NextRebuild]_vars

\* av_map_add(s, key, 2, "x", 2, 0) with the allocations succeeding in place;
\* of the call only its name and what it returned are kept
TreeAdd(key) ==
    /\ ~ub /\ s # NoMap /\ calls < TreeCalls
    /\ s.next + Advance(Len(key) + 2) <= TreeSlots
    /\ calls' = calls + 1 /\ build' = build
    /\ IF ~Sane(heap, s) THEN Corrupt("av_map_add")
       ELSE \E r \in {av_map_add(heap, s, key, Len(key), <<120, 0>>, 2, 0, InPlace)} :
            /\ heap' = CanonHeap(r.h, r.m)
            /\ s' = CanonMap(r.m)
            /\ ub' = r.ub
            /\ live' = IF r.ret = 1 THEN Append(live, key \o <<120, 0>>) ELSE live
            /\ cur' = CanonPtr(cur, r.m.internal_entries[1])
            /\ curok' = [curok EXCEPT !.inplace = @ /\ r.m.internal_entries = s.internal_entries,
                                      !.inscope = @ /\ ~r.ub]
            /\ last' = [NoLast EXCEPT !.op = "av_map_add", !.ret = r.ret]
            /\ UNCHANGED <<clone, clonelive>>

\* av_map_del(s, key, c, 0) with c the comparator by key the map allows
TreeDel(key) ==
    /\ ~ub /\ s # NoMap /\ calls < TreeCalls
    /\ calls' = calls + 1 /\ build' = build
    /\ IF ~Sane(heap, s) THEN Corrupt("av_map_del")
       ELSE \E c \in {IF s.cmp_keyvalue = "strcmp" THEN "strcmp" ELSE "av_map_supercmp_key"} :
            \E r \in {av_map_del(heap, s, UserPtr(key), c, 0, InPlace)},
               found \in {av_tree_find2(heap, c, s.tree_root, UserPtr(key), << >>, 0).ret} :
            /\ heap' = CanonHeap(r.h, r.m)
            /\ s' = CanonMap(r.m)
            /\ ub' = r.ub
            /\ live' = IF r.ret = 1 THEN RemoveFound(live, c, key, Bytes(heap, found))
                       ELSE live
            /\ cur' = CanonPtr(cur, r.m.internal_entries[1])
            /\ curok' = [curok EXCEPT !.inplace = @ /\ r.m.internal_entries = s.internal_entries]
            /\ last' = [NoLast EXCEPT !.op = "av_map_del", !.ret = r.ret]
            /\ UNCHANGED <<clone, clonelive>>

TreeAddCall == \E key \in TreeKeys : TreeAdd(key)

TreeDelCall == \E key \in TreeKeys : TreeDel(key)

\* insertions into and removals from the tree of a map
NextTree ==
    \/ TreeAddCall
    \/ TreeDelCall

\* no call of NextTree moves the arena, so that one build stands for both;
\* the keys of TreeKeys with their one value are in the same order under
\* both comparators of MapCmps, so that strcmp stands for both
InitTree == Init /\ build = "exact" /\ s.cmp_keyvalue = "strcmp"

SpecTree == InitTree /\ [][NextTree]_vars

\* the same trees, for what av_tree_find2 and av_tree_insert do when they
\* are called on them
SpecFind == InitTree /\ [][NextTree]_vars

\* the comparators of map.h that are documented as compatible with a coarser
\* one
CmpMapCmps == {"av_map_strcmp_keyvalue", "av_map_supercmp_key", "av_map_supercmp_keyvalue"}

\* the pairs a caller adds to compare them: keys "A", "a", "B", each with
\* the values "x" and "y"
CmpEntries == {<<65, 0>>, <<97, 0>>, <<66, 0>>} \X {<<120, 0>>, <<121, 0>>}

\* calls made on a map that is filled to compare its entries
CmpCalls == 4

\* av_map_add(s, key, 2, value, 2, 0) with the allocations succeeding in
\* place
CmpAdd(key, value) ==
    /\ ~ub /\ s # NoMap /\ calls < CmpCalls
    /\ s.next + Advance(Len(key) + Len(value)) <= TreeSlots
    /\ calls' = calls + 1 /\ build' = build
    /\ IF ~Sane(heap, s) THEN Corrupt("av_map_add")
       ELSE \E r \in {av_map_add(heap, s, key, Len(key), value, Len(value), 0, InPlace)} :
            /\ heap' = CanonHeap(r.h, r.m)
            /\ s' = CanonMap(r.m)
            /\ ub' = r.ub
            /\ live' = IF r.ret = 1 THEN Append(live, key \o value) ELSE live
            /\ cur' = CanonPtr(cur, r.m.internal_entries[1])
            /\ curok' = [curok EXCEPT !.inplace = @ /\ r.m.internal_entries = s.internal_entries,
                                      !.inscope = @ /\ ~r.ub]
            /\ last' = [NoLast EXCEPT !.op = "av_map_add", !.ret = r.ret,
                                      !.kv = key \o value, !.c = s.cmp_keyvalue]
            /\ UNCHANGED <<clone, clonelive>>

CmpAddCall == \E e \in CmpEntries : CmpAdd(e[1], e[2])

\* no call of CmpAddCall moves the arena, so that one build stands for both
InitCmp ==
    /\ heap = [b \in 1..MaxBlocks |-> NoBlock]
    /\ s \in {av_map_new(c, FALSE) : c \in CmpMapCmps}
    /\ live = << >>
    /\ cur = NULL
    /\ curok = [inscope |-> FALSE, inplace |-> FALSE]
    /\ last = NoLast
    /\ ub = FALSE
    /\ build = "exact"
    /\ calls = 0
    /\ clone = NoMap
    /\ clonelive = << >>

\* maps built with the comparators of CmpMapCmps and filled with pairs that
\* differ in case, in key and in value
SpecCmp == InitCmp /\ [][CmpAddCall]_vars

AddTooLongCall ==
    \E e \in {x \in Entries : Len(x[2]) <= 4} : AddTooLong(e[1], e[2], 0)

\* adds, among them adds that cannot reserve their space, and deletes
NextReserve ==
    \/ AddCall
    \/ AddTooLongCall
    \/ DelCall

SpecReserve == Init /\ [][NextReserve]_vars

\* a map made with a free callback
InitFree ==
    /\ heap = [b \in 1..MaxBlocks |-> NoBlock]
    /\ s \in {av_map_new(c, TRUE) : c \in MapCmps}
    /\ live = << >>
    /\ cur = NULL
    /\ curok = [inscope |-> FALSE, inplace |-> FALSE]
    /\ last = NoLast
    /\ ub = FALSE
    /\ build \in {"exact", "truncating"}
    /\ calls = 0
    /\ clone = NoMap
    /\ clonelive = << >>

\* adds and deletes on a map with a free callback, and its av_map_free
NextFree ==
    \/ AddCall
    \/ DelCall
    \/ Free

SpecFree == InitFree /\ [][NextFree]_vars

CloneModes == {InPlace, FailAt(1), FailAt(2)}

CloneCall == \E al \in CloneModes : Clone(al)

\* calls on a map and on its clone
NextClone ==
    \/ AddCall
    \/ DelCall
    \/ ReallocCall
    \/ CloneCall
    \/ Swap
    \/ Free

SpecClone == Init /\ [][NextClone]_vars

\* extra_space of a reservation for one element that asks for more than
\* INT32_MAX bytes as soon as the arena is in use: the first is below the
\* limit the reservation compares with while next is at most 7, the second
\* is not
LargeSpaces == {INT32_MAX - 86, INT32_MAX - 55}

\* slots the reservation av_map_realloc(s, extra_elements, extra_space) asks for
\* beyond next
ReallocAdvance(extra_elements, extra_space) ==
    extra_elements
    + (extra_space + extra_elements * (SlotSize + NodeSize - 1)) \div SlotSize

\* av_map_realloc(s, 1, extra_space) that asks for more than INT32_MAX bytes
ReallocLarge(extra_space) ==
    /\ ~ub /\ s # NoMap /\ calls < MaxCalls
    /\ s.next + ReallocAdvance(1, extra_space) > INT32_MAX \div SlotSize
    /\ calls' = calls + 1 /\ build' = build
    /\ IF ~Sane(heap, s) THEN Corrupt("av_map_realloc")
       ELSE \E r \in {av_map_realloc(heap, s, 1, extra_space, InPlace)} :
            /\ heap' = CanonHeap(r.h, r.m)
            /\ s' = CanonMap(r.m)
            /\ ub' = FALSE
            /\ live' = live
            /\ cur' = CanonPtr(cur, r.m.internal_entries[1])
            /\ curok' = [inscope |-> FALSE,
                         inplace |-> curok.inplace /\ r.m.internal_entries = s.internal_entries]
            /\ last' = [NoLast EXCEPT !.op = "av_map_realloc", !.ret = r.ret,
                                      !.kv = <<1, extra_space>>,
                                      !.moved = ArenaMoved(s.internal_entries, r.m)]
            /\ UNCHANGED <<clone, clonelive>>

ReallocLargeCall == \E extra_space \in LargeSpaces : ReallocLarge(extra_space)

\* adds, deletes and reservations, among them reservations of more than
\* INT32_MAX bytes
NextSize ==
    \/ AddCall
    \/ DelCall
    \/ ReallocCall
    \/ ReallocLargeCall

SpecSize == Init /\ [][NextSize]_vars

\* adds, replacing or not, and deletes, rebuilding or not
NextEdit ==
    \/ AddCall
    \/ DelCall

SpecEdit == Init /\ [][NextEdit]_vars

\* the entries "A"="x" and "a"="x"
Filled == << <<<<65, 0>>, <<120, 0>>>>, <<<<97, 0>>, <<120, 0>>>> >>

\* a map after av_map_new and the adds of "A"="x" and "a"="x", which both
\* returned 1; calls counts the calls made from here on
InitFilled ==
    /\ \E c \in MapCmps :
           \E b \in {BuildMap([i \in 1..MaxBlocks |-> NoBlock], av_map_new(c, FALSE), Filled)} :
               /\ heap = CanonHeap(b.h, b.m)
               /\ s = CanonMap(b.m)
               /\ last = [NoLast EXCEPT !.op = "av_map_add", !.ret = 1, !.c = c,
                                        !.kv = <<97, 0, 120, 0>>]
    /\ live = Keyvalues(Filled)
    /\ cur = NULL
    /\ curok = [inscope |-> FALSE, inplace |-> FALSE]
    /\ ub = FALSE
    /\ build \in {"exact", "truncating"}
    /\ calls = 0
    /\ clone = NoMap
    /\ clonelive = << >>

\* adds and deletes on a map that holds two entries
SpecFilled == InitFilled /\ [][NextEdit]_vars

----------------------------------------------------------------------------
(* What a caller can observe of a map, and what the calls made so far       *)
(* entitle the caller to observe                                            *)

\* the entry a caller expects to be shown for the added string kv = key + value
ViewOf(kv) ==
    [found |-> "yes", keylen |-> strlen(kv) + 1, valuelen |-> Len(kv) - strlen(kv) - 1,
     kv |-> kv, dead |-> FALSE]

ViewsOf(q) == [i \in 1..Len(q) |-> ViewOf(q[i])]

\* every lookup a caller can make: av_map_get and the av_map_get_multiple walk
Lookups(h, m) ==
    [c \in LookupCmps(m.cmp_keyvalue) |->
        [keyvalue \in ArgsFor(c) |->
            <<Get(h, m, keyvalue, c), GetMultiple(h, m, keyvalue, c)>>]]

Observations(h, m) ==
    [count |-> av_map_count(m), lookups |-> Lookups(h, m), iterate |-> Iterate(h, m)]

RECURSIVE InOrder(_, _, _)
\* the elements reachable from node t, left to right, at most n levels deep
InOrder(h, t, n) ==
    IF t = NULL \/ n = 0 THEN << >>
    ELSE InOrder(h, NodeAt(h, t).child[1], n - 1) \o <<NodeAt(h, t).elem>>
         \o InOrder(h, NodeAt(h, t).child[2], n - 1)

\* the slots below next that start an entry run
RunHeads(h, m) ==
    {i \in 1..m.next : h[m.internal_entries[1]].mem[i].kind = "head"}

\* the keys of the runs below next that are not tombstoned
LiveRuns(h, m) ==
    {internal_key(EntryPtr(m, i - 1)) : i \in
        {j \in RunHeads(h, m) : h[m.internal_entries[1]].mem[j].key # deleted_entry}}

RECURSIVE HeadsFrom(_, _, _)
\* the entries of the non-tombstoned runs at slot i and after, in arena order
HeadsFrom(h, m, i) ==
    IF i > m.next THEN << >>
    ELSE (IF i \in RunHeads(h, m) /\ h[m.internal_entries[1]].mem[i].key # deleted_entry
          THEN <<View(h, EntryPtr(m, i - 1))>> ELSE << >>) \o HeadsFrom(h, m, i + 1)

RECURSIVE SelectEqual(_, _, _, _)
\* the entries of the elements of q that compare equal to keyvalue under c
SelectEqual(h, q, keyvalue, c) ==
    IF q = << >> THEN << >>
    ELSE (IF cmp(h, c, keyvalue, Head(q)) = 0
          THEN <<View(h, keyvalue2internal(Head(q)))>> ELSE << >>)
         \o SelectEqual(h, Tail(q), keyvalue, c)

\* the AVMapEntry pointers of the runs below next that are not tombstoned
LiveHeads(h, m) ==
    {EntryPtr(m, i - 1) : i \in
        {j \in RunHeads(h, m) : h[m.internal_entries[1]].mem[j].key # deleted_entry}}

\* the callback was called once with each pointer of want and with no other
FreedOnce(freed, want) ==
    /\ Len(freed) = Cardinality(want)
    /\ {freed[i] : i \in DOMAIN freed} = want

\* the map is one a call may be made on without undefined behaviour
Defined == ~ub /\ Sane(heap, s)

----------------------------------------------------------------------------
(* Properties of the public operations *)

\* C1: av_map_copy is all-or-nothing: when it returns an error, dst shows the
\* same count(), the same result of every get and get_multiple lookup and the
\* same iterate sequence as before the call.
C1_CopyAllOrNothing ==
    [][(last'.op = "av_map_copy" /\ last'.ret < 0)
       => Observations(heap', s') = Observations(heap, s)]_vars

\* C2: when av_map_del(k, cmp, flags) returns 1 and exactly one live entry
\* compared equal to k under cmp before the call, a following
\* av_map_get(k, cmp) returns null, with either comparator path, wherever the
\* node sits in the tree, with or without AV_MAP_ALLOW_REBUILD.
C2_DelThenGetNull ==
    [][(last'.op = "av_map_del" /\ last'.ret = 1
        /\ Cardinality(Equal(live, last'.c, last'.kv)) = 1)
       => Get(heap', s', UserPtr(last'.kv), last'.c) = NoView]_vars

\* C3: after av_map_add(k, keylen, v, valuelen, flags) returns 1 or 2,
\* av_map_get with the construction comparator on k+v returns an entry with
\* the keylen, valuelen, key bytes and value bytes passed to add.
C3_AddThenGet ==
    [][(last'.op = "av_map_add" /\ last'.ret \in {1, 2})
       => Get(heap', s', UserPtr(last'.kv), s'.cmp_keyvalue) = ViewOf(last'.kv)]_vars

\* C4: when an entry equal under the construction comparator exists,
\* av_map_add with AV_MAP_REPLACE (with or without AV_MAP_ALLOW_REBUILD)
\* returns 2, leaves count() unchanged, get returns the new entry, the
\* replaced entry is returned by no lookup and not by iterate, and every other
\* entry is still live.
C4_Replace ==
    [][(last'.op = "av_map_add" /\ last'.flags >= AV_MAP_REPLACE
        /\ Equal(live, s.cmp_keyvalue, last'.kv) # {})
       => /\ last'.ret = 2
          /\ av_map_count(s') = av_map_count(s)
          /\ Get(heap', s', UserPtr(last'.kv), s'.cmp_keyvalue) = ViewOf(last'.kv)
          /\ Iterate(heap', s') =
                 ViewsOf(Append(RemoveEqual(live, s.cmp_keyvalue, last'.kv), last'.kv))
          /\ \A i \in 1..Len(live) :
                 Get(heap', s', UserPtr(live[i]), s'.cmp_keyvalue) =
                     IF Compare(s.cmp_keyvalue, last'.kv, live[i]) = 0
                     THEN ViewOf(last'.kv) ELSE ViewOf(live[i])]_vars

\* C5: after every public operation the elements reachable from tree_root are
\* exactly the non-tombstoned entry runs of the arena below next, and there
\* are count() of them: del tombstones the entry whose element it unlinked.
C5_TreeIsLiveRuns ==
    Defined =>
        /\ {InOrder(heap, s.tree_root, MaxSlots)[i] :
                i \in 1..Len(InOrder(heap, s.tree_root, MaxSlots))} = LiveRuns(heap, s)
        /\ Len(InOrder(heap, s.tree_root, MaxSlots)) = av_map_count(s)
        /\ Cardinality(LiveRuns(heap, s)) = av_map_count(s)

\* C6: from prev = null, av_map_iterate returns every entry that was added
\* and not deleted exactly once, in arena order, never a deleted one, then
\* null; it returns av_map_count() entries.
C6_IterateLive ==
    Defined =>
        /\ Iterate(heap, s) = ViewsOf(live)
        /\ Len(Iterate(heap, s)) = av_map_count(s)

\* the cursor points at the header of an entry run of the current arena
CursorAtRun ==
    /\ cur[1] = s.internal_entries[1]
    /\ SlotIndex(cur[2]) \in RunHeads(heap, s)

\* continuing from the cursor yields the non-tombstoned runs after it
CursorContinues ==
    /\ CursorAtRun
    /\ IterateFrom(heap, s, cur) = HeadsFrom(heap, s, SlotIndex(cur[2]) + 1)

\* C7 as stated: a cursor returned by av_map_iterate stays valid across
\* av_map_add calls that trigger no rebuild and av_map_del calls without
\* AV_MAP_ALLOW_REBUILD, with no av_map_realloc made before: it refers to an
\* entry of the current arena and continuing yields the entries after it.
C7_CursorAnyAdd ==
    (curok.inscope /\ cur # NULL) => CursorContinues

\* C7: a cursor returned by av_map_iterate stays valid across av_map_add calls
\* that trigger no rebuild and do not relocate the arena, and av_map_del calls
\* without AV_MAP_ALLOW_REBUILD: it refers to an entry of the current arena
\* and continuing yields exactly the entries of the non-tombstoned runs
\* physically after it, newly added ones included.
C7_CursorInPlace ==
    (curok.inscope /\ curok.inplace /\ cur # NULL) => CursorContinues

\* an entry was added in place behind a cursor in use, and iterating on
\* reaches it
C7_Witness ==
    /\ curok.inscope /\ curok.inplace /\ cur # NULL
    /\ last.op = "av_map_add" /\ last.ret = 1
    /\ ~ub
    /\ Len(IterateFrom(heap, s, cur)) >= 1
    /\ IterateFrom(heap, s, cur)[Len(IterateFrom(heap, s, cur))] = ViewOf(last.kv)

\* C8: for a comparator compatible with the construction comparator,
\* av_map_get_multiple(null, kv, cmp) returns the leftmost entry of the tree
\* equal to kv under cmp, or null, and feeding each result back as prev
\* returns every remaining equal entry once, in tree order, then null.
C8_GetMultiple ==
    Defined =>
        \A c \in LookupCmps(s.cmp_keyvalue) : \A keyvalue \in ArgsFor(c) :
            GetMultiple(heap, s, keyvalue, c) =
                SelectEqual(heap, InOrder(heap, s.tree_root, MaxSlots), keyvalue, c)

\* C9: av_map_add without AV_MAP_REPLACE returns 1 exactly when no live entry
\* compares equal to the new key+value under the construction comparator and
\* 0 otherwise, and then the map keeps the entries it had.
C9_AddReturn ==
    [][(last'.op = "av_map_add" /\ last'.flags = 0 /\ last'.ret >= 0 /\ ~ub')
       => /\ last'.ret = IF Equal(live, s.cmp_keyvalue, last'.kv) = {} THEN 1 ELSE 0
          /\ last'.ret = 0 => Iterate(heap', s') = Iterate(heap, s)]_vars

\* C10: after adds and deletes with AV_MAP_ALLOW_REBUILD, when a delete has
\* rebuilt the map, count() is the number of entries added and not deleted,
\* every one of them is retrievable with its value and iterated, and no
\* deleted entry is retrievable or iterated.
C10_RebuildSafe ==
    [][(last'.op = "av_map_del" /\ last'.ret = 1 /\ s'.deleted = 0 /\ ~ub')
       => /\ av_map_count(s') = Len(live')
          /\ Iterate(heap', s') = ViewsOf(live')
          /\ \A i \in 1..Len(live') :
                 Get(heap', s', UserPtr(live'[i]), s'.cmp_keyvalue) = ViewOf(live'[i])
          /\ \A keyvalue \in KeyvalueArgs :
                 Get(heap', s', keyvalue, s'.cmp_keyvalue).kv = Bytes(heap', keyvalue)
                 => \E i \in 1..Len(live') : live'[i] = Bytes(heap', keyvalue)]_vars

C11_CloneViews ==
    [][(clone # NoMap /\ clone' # NoMap /\ ~ub'
        /\ last'.op \notin {"av_map_clone", "swap"})
       => Observations(heap', clone') = Observations(heap, clone)]_vars

\* C12: on a map with a free callback av_map_free calls it exactly once with
\* the header of every run that is not tombstoned and with nothing else; a
\* rebuild calls it exactly once with each entry that was live in the arena
\* it discards and with nothing else
C12_FreeCallback ==
    [][/\ (s.freef /\ ~ub' /\ last'.op = "av_map_free")
           => FreedOnce(last'.freed, LiveHeads(heap, s))
       /\ (s.freef /\ ~ub' /\ last'.op = "av_map_del" /\ last'.ret = 1 /\ s'.deleted = 0)
           => /\ Len(last'.freed) = s'.count
              /\ FreedOnce(last'.freed, {last'.freed[i] : i \in DOMAIN last'.freed})
              /\ {last'.freed[i] : i \in DOMAIN last'.freed} \subseteq LiveHeads(heap, s)]_vars

\* the slots of the arena below next
Slots(h, m) ==
    IF m.internal_entries = NULL THEN << >>
    ELSE SubSeq(h[m.internal_entries[1]].mem, 1, m.next)

\* C13: an av_map_add whose reservation fails, by a failed allocation or by
\* a size past INT32_MAX, returns a negative error code and leaves count,
\* deleted, next, the tree, every slot in use, every lookup and the iteration
\* as they were
C13_FailedAddUnchanged ==
    [][(last'.op = "av_map_add" /\ last'.ret < 0 /\ ~ub')
       => /\ s'.count = s.count /\ s'.deleted = s.deleted /\ s'.next = s.next
          /\ s'.tree_root = s.tree_root
          /\ s'.internal_entries = s.internal_entries
          /\ Slots(heap', s') = Slots(heap, s)
          /\ Observations(heap', s') = Observations(heap, s)]_vars

\* an add has failed for a failed allocation on a map that holds entries
C13_Witness ==
    /\ last.op = "av_map_add" /\ last.ret = ENOMEM /\ last.failed
    /\ ~ub /\ s.count >= 2

\* an add has failed for its size on a map that holds entries
C13_WitnessTooLong ==
    /\ last.op = "av_map_add" /\ last.ret = ENOMEM /\ ~last.failed
    /\ ~ub /\ s.count >= 2 /\ s.deleted >= 1

RECURSIVE Height(_, _, _)
\* the height of the subtree at node t, looked at n levels deep
Height(h, t, n) ==
    IF t = NULL \/ n = 0 THEN 0
    ELSE 1 + (IF Height(h, NodeAt(h, t).child[1], n - 1)
                    >= Height(h, NodeAt(h, t).child[2], n - 1)
              THEN Height(h, NodeAt(h, t).child[1], n - 1)
              ELSE Height(h, NodeAt(h, t).child[2], n - 1))

RECURSIVE Nodes(_, _, _)
\* the nodes reachable from node t, at most n levels deep
Nodes(h, t, n) ==
    IF t = NULL \/ n = 0 THEN {}
    ELSE {t} \cup Nodes(h, NodeAt(h, t).child[1], n - 1)
             \cup Nodes(h, NodeAt(h, t).child[2], n - 1)

\* q is strictly increasing under comparator c
Increasing(h, c, q) == \A i \in 1..(Len(q) - 1) : cmp(h, c, q[i], q[i + 1]) < 0

\* C14: after any insertions and removals made through av_map_add and
\* av_map_del the elements of the tree, read left to right, are strictly
\* increasing under the comparator the map was made with
C14_TreeOrdered ==
    Defined => Increasing(heap, s.cmp_keyvalue, InOrder(heap, s.tree_root, TreeSlots))

\* a removal has left a tree of four elements
C14_Witness ==
    /\ Defined /\ last.op = "av_map_del" /\ last.ret = 1
    /\ Len(InOrder(heap, s.tree_root, TreeSlots)) = 4

\* C15: after every insertion and removal, at every node the heights of the
\* two subtrees differ by at most 1 and state is height(child[1]) -
\* height(child[0])
C15_TreeBalanced ==
    Defined =>
        \A t \in Nodes(heap, s.tree_root, TreeSlots) :
            /\ NodeAt(heap, t).state \in {-1, 0, 1}
            /\ NodeAt(heap, t).state
                   = Height(heap, NodeAt(heap, t).child[2], TreeSlots)
                     - Height(heap, NodeAt(heap, t).child[1], TreeSlots)

\* a removal has left a tree of height 3 that leans to one side
C15_Witness ==
    /\ Defined /\ last.op = "av_map_del" /\ last.ret = 1
    /\ Height(heap, s.tree_root, TreeSlots) = 3
    /\ NodeAt(heap, s.tree_root).state # 0

\* p points into the arena of m below next
InArena(m, p) ==
    /\ m.internal_entries # NULL /\ p[1] = m.internal_entries[1]
    /\ p[2] >= m.internal_entries[2]
    /\ p[2] < m.internal_entries[2] + m.next * SlotSize

\* tree_root, the child and elem pointers reachable from it and the key and
\* value pointers of the live entries point into the arena below next
PointersInArena(h, m) ==
    /\ Sane(h, m)
    /\ m.tree_root # NULL => InArena(m, m.tree_root)
    /\ \A t \in Nodes(h, m.tree_root, MaxSlots) :
           /\ InArena(m, NodeAt(h, t).elem)
           /\ \A i \in 1..2 : NodeAt(h, t).child[i] # NULL
                                 => InArena(m, NodeAt(h, t).child[i])
    /\ \A e \in LiveHeads(h, m) :
           InArena(m, EntryAt(h, e).key) /\ InArena(m, EntryAt(h, e).value)

\* C16: whenever a public operation has returned, replace with rebuild,
\* delete with rebuild, relocation and a failed copy included, every pointer
\* of the map points into its current arena below next, none into a freed
\* or replaced arena
C16_PointersInArena == build = "exact" => ~ub /\ PointersInArena(heap, s)

RECURSIVE Shape(_, _, _)
\* the tree at node t, n levels deep: each node with its address, elem and
\* state between its subtrees.  Addresses are offsets into the arena, so
\* that two shapes are equal when the pointers differ by the distance of the
\* arenas.
Shape(h, t, n) ==
    IF t = NULL \/ n = 0 THEN << >>
    ELSE <<Shape(h, NodeAt(h, t).child[1], n - 1), t[2], NodeAt(h, t).elem[2],
           NodeAt(h, t).state, Shape(h, NodeAt(h, t).child[2], n - 1)>>

\* C17: an av_map_add that returns 0 leaves count, deleted, next, the tree,
\* every lookup and the iteration as they were; the entry that was stored
\* keeps its value
C17_AddZeroUnchanged ==
    [][(last'.op = "av_map_add" /\ last'.ret = 0 /\ ~ub')
       => /\ s'.count = s.count /\ s'.deleted = s.deleted /\ s'.next = s.next
          /\ Shape(heap', s'.tree_root, MaxSlots) = Shape(heap, s.tree_root, MaxSlots)
          /\ Observations(heap', s') = Observations(heap, s)]_vars

\* "a"="yyy..." was added to a map compared by key that holds "a"="x": the
\* add returned 0 and the map still shows "a"="x"
C17_Witness ==
    /\ ~ub /\ last.op = "av_map_add" /\ last.ret = 0
    /\ s.cmp_keyvalue = "strcmp" /\ last.kv = <<97, 0>> \o LongValue
    /\ Get(heap, s, UserPtr(<<97, 0>>), "strcmp").kv = <<97, 0, 120, 0>>

\* the second of the calls add("a", "x"), add("a", "yyy...") without
\* AV_MAP_REPLACE on a map that was empty before the first
DuplicateKeyAdd ==
    /\ last.op = "av_map_add" /\ last.ret = 1 /\ last.kv = <<97, 0, 120, 0>>
    /\ s.count = 1 /\ s.deleted = 0
    /\ last'.op = "av_map_add" /\ last'.kv = <<97, 0>> \o LongValue
    /\ last'.flags = 0 /\ last'.ret >= 0 /\ ~ub'

\* C18, as the specification words it: the second add returns 0 on a map
\* made with a comparator of key and value, and 0 or 1 on a map made with a
\* comparator of the key alone
C18_DuplicateKeyAsStated ==
    [][DuplicateKeyAdd
       => /\ s.cmp_keyvalue = "av_map_supercmp_keyvalue" => last'.ret = 0
          /\ s.cmp_keyvalue = "strcmp" => last'.ret \in {0, 1}]_vars

\* C18: the second add returns 1 on a map made with a comparator of key and
\* value, which then holds both entries, and 0 on a map made with a
\* comparator of the key alone, which holds the first entry only
C18_DuplicateKey ==
    [][DuplicateKeyAdd
       => /\ s.cmp_keyvalue = "av_map_supercmp_keyvalue"
             => last'.ret = 1 /\ s'.count = 2
                /\ Iterate(heap', s') = ViewsOf(<<last.kv, last'.kv>>)
          /\ s.cmp_keyvalue = "strcmp"
             => last'.ret = 0 /\ s'.count = 1
                /\ Iterate(heap', s') = ViewsOf(<<last.kv>>)]_vars

\* a map made with av_map_supercmp_keyvalue holds "a"="x" and "a"="yyy...",
\* added in this order
C18_Witness ==
    /\ ~ub /\ s.cmp_keyvalue = "av_map_supercmp_keyvalue"
    /\ last.op = "av_map_add" /\ last.ret = 1 /\ last.kv = <<97, 0>> \o LongValue
    /\ s.count = 2 /\ s.deleted = 0
    /\ Iterate(heap, s) = ViewsOf(<<<<97, 0, 120, 0>>, <<97, 0>> \o LongValue>>)

\* an av_map_realloc, called by the caller or by an av_map_add without flags,
\* has returned after it moved the arena
Relocated ==
    /\ last'.moved /\ last'.ret >= 0 /\ last'.flags = 0
    /\ last'.op \in {"av_map_realloc", "av_map_add"}

\* what C19 says of a call that moved the arena
Transparent ==
    /\ ~ub'
    /\ PointersInArena(heap', s')
    /\ (last'.op = "av_map_realloc" \/ last'.ret = 0)
       => /\ Shape(heap', s'.tree_root, MaxSlots) = Shape(heap, s.tree_root, MaxSlots)
          /\ Observations(heap', s') = Observations(heap, s)

\* C19: when av_map_realloc, called directly or from av_map_add, has moved
\* the arena, tree_root, the child and elem pointers and the key and value
\* pointers of the live entries are shifted by the distance of the arenas,
\* shape and balance of the tree are as before, and every lookup and the
\* iteration show the same entries
C19_RelocationTransparent == [][Relocated => Transparent]_vars

\* C19 in a build that computes p - old + new on AVTreeNode pointers as the
\* distance in bytes
C19_RelocationExact == [][(Relocated /\ build = "exact") => Transparent]_vars

\* an av_map_del with AV_MAP_ALLOW_REBUILD has deleted an entry and returned,
\* no allocation having failed
DelAllowingRebuild ==
    /\ last'.op = "av_map_del" /\ last'.flags = AV_MAP_ALLOW_REBUILD /\ last'.ret = 1
    /\ ~last'.failed /\ ~ub'

\* every slot of the arena below next belongs to a run that is not tombstoned
OnlyLiveRuns(h, m) ==
    m.next > 0 =>
        /\ \A i \in 1..m.next : h[m.internal_entries[1]].mem[i].kind \in {"head", "body"}
        /\ \A i \in RunHeads(h, m) : h[m.internal_entries[1]].mem[i].key # deleted_entry
        /\ Cardinality(RunHeads(h, m)) = m.count

Counting(h, m) ==
    /\ m.count >= 0
    /\ ArenaSane(h, m)
    /\ m.count + m.deleted = Cardinality(RunHeads(h, m))
    /\ m.count = Cardinality(LiveHeads(h, m))

\* C21: after any sequence of adds, replacing or not, and deletes,
\* count + deleted is the number of entry runs in the arena below next, count
\* is the number of runs that are not tombstoned, and count is not negative
C21_Counting == build = "exact" => ~ub /\ Counting(heap, s)

\* C21 in the states that no call with undefined behaviour has led to
C21_CountingDefined == ~ub => Counting(heap, s)

\* the slot of the arena of m with index i, counted from 1
SlotAt(h, m, i) == h[m.internal_entries[1]].mem[i]

\* the run headers below next whose key is &deleted_entry
Tombstones(h, m) == {i \in RunHeads(h, m) : SlotAt(h, m, i).key = deleted_entry}

\* what the slot holds apart from its pointers
Stored(x) == [kind |-> x.kind, keylen |-> x.keylen, valuelen |-> x.valuelen, kv |-> x.kv]

\* an av_map_add or av_map_del has returned, having relocated the arena or
\* not, without a rebuild
EditWithoutRebuild ==
    /\ last'.op \in {"av_map_add", "av_map_del"} /\ ~ub'
    /\ ~(last'.op = "av_map_del" /\ last'.moved)

\* C22: between rebuilds next does not decrease, a successful add writes its
\* entry at the slot next designated when the call began and moves next
\* past it, no slot of a run below next is overwritten, and a tombstoned run
\* stays tombstoned, across a relocation too: an add of a key that was
\* deleted makes a new run
C22_LifeCycle ==
    [][EditWithoutRebuild
       => /\ s'.next >= s.next
          /\ \A i \in 1..s.next : Stored(SlotAt(heap', s', i)) = Stored(SlotAt(heap, s, i))
          /\ \A i \in Tombstones(heap, s) : i \in Tombstones(heap', s')
          /\ (last'.op = "av_map_add" /\ last'.ret \in {1, 2})
             => /\ s'.next = s.next + Advance(Len(last'.kv))
                /\ Stored(SlotAt(heap', s', s.next + 1)) = Stored(
                       [NoCell EXCEPT !.kind = "head", !.kv = last'.kv,
                                      !.keylen = strlen(last'.kv) + 1,
                                      !.valuelen = Len(last'.kv) - strlen(last'.kv) - 1])
                /\ SlotAt(heap', s', s.next + 1).key = internal_key(EntryPtr(s', s.next))]_vars

\* a key that was deleted has been added again by a call that moved the
\* arena: its tombstoned run is still there and the new run is behind it
C22_Witness ==
    /\ ~ub /\ last.op = "av_map_add" /\ last.ret = 1 /\ last.moved /\ s.deleted >= 1
    /\ \E i \in Tombstones(heap, s) :
           /\ SlotAt(heap, s, i).kv = last.kv
           /\ \E j \in RunHeads(heap, s) \ Tombstones(heap, s) :
                  j > i /\ SlotAt(heap, s, j).kv = last.kv

\* the call has left the struct and every slot below next as they were
MapUnchanged == s' = s /\ Slots(heap', s') = Slots(heap, s)

\* C23: av_map_del returns 0 when no entry that was added and not deleted
\* since compares equal to keyvalue under cmp, on an empty map too and with
\* either comparator path, and a call that returns 0 leaves count, deleted,
\* the tree with its shape and balance, and every entry as they were
C23_DelNotFound ==
    [][(last'.op = "av_map_del" /\ ~ub')
       => /\ Equal(live, last'.c, last'.kv) = {} => last'.ret = 0
          /\ last'.ret = 0 => MapUnchanged]_vars

\* C23 for the calls that return 0: they leave the map as it was
C23_DelZeroUnchanged ==
    [][(last'.op = "av_map_del" /\ ~ub' /\ last'.ret = 0) => MapUnchanged]_vars

\* an av_map_del without flags has returned whose comparator is not the one
\* the map was made with
DelOtherCmp ==
    /\ last'.op = "av_map_del" /\ last'.c # s.cmp_keyvalue /\ last'.flags = 0 /\ ~ub'

\* the call before was an av_map_del without flags, by the same comparator
\* and for the same keyvalue, that returned 1
FurtherDel ==
    /\ last.op = "av_map_del" /\ last.flags = 0 /\ last.ret = 1
    /\ last.c = last'.c /\ last.kv = last'.kv

\* C24: with a comparator that is not the one the map was made with, when
\* several entries that were added and not deleted compare equal to
\* keyvalue, av_map_del without flags returns 1 and takes out one: count goes
\* down by 1 and every other one is still found, by the comparator of the
\* call and as itself by the comparator of the map; a further del returns 1
\* as long as one is left and 0 when none is
C24_DelOneOfEqual ==
    [][DelOtherCmp
       => /\ Cardinality(Equal(live, last'.c, last'.kv)) >= 2
             => /\ last'.ret = 1
                /\ av_map_count(s') = av_map_count(s) - 1
                /\ Get(heap', s', UserPtr(last'.kv), last'.c).found = "yes"
                /\ ~Get(heap', s', UserPtr(last'.kv), last'.c).dead
                /\ \A i \in Equal(live', last'.c, last'.kv) :
                       Get(heap', s', UserPtr(live'[i]), s'.cmp_keyvalue) = ViewOf(live'[i])
          /\ FurtherDel
             => last'.ret = IF Equal(live, last'.c, last'.kv) = {} THEN 0 ELSE 1]_vars

\* the elements of the tree that compare equal to kv under c
TreeEqual(h, m, c, kv) ==
    {e \in {InOrder(h, m.tree_root, MaxSlots)[i] :
                i \in 1..Len(InOrder(h, m.tree_root, MaxSlots))} :
        Compare(c, kv, Bytes(h, e)) = 0}

\* C24 of the elements of the tree in place of the entries that were added
\* and not deleted: the call takes one of the equal elements out of the tree
\* and tombstones its run, and leaves the others
C24_DelOneOfTree ==
    [][DelOtherCmp
       => /\ last'.ret = IF TreeEqual(heap, s, last'.c, last'.kv) = {} THEN 0 ELSE 1
          /\ last'.ret = 1
             => /\ av_map_count(s') = av_map_count(s) - 1
                /\ \E e \in TreeEqual(heap, s, last'.c, last'.kv) :
                       /\ TreeEqual(heap', s', last'.c, last'.kv)
                              = TreeEqual(heap, s, last'.c, last'.kv) \ {e}
                       /\ EntryAt(heap', keyvalue2internal(e)).key = deleted_entry]_vars

\* C25: av_map_clone of any map, a new empty one and one with tombstoned
\* runs included, returns a map when no allocation fails, and the map it
\* returns shows the count, the iteration and the result of every lookup
\* that the source shows
C25_CloneSame ==
    [][(last'.op = "av_map_clone" /\ ~last'.failed /\ build = "exact")
       => /\ last'.ret = 1
          /\ ~ub'
          /\ Observations(heap', clone') = Observations(heap, s)]_vars

\* C25 of the maps that have an arena which holds the slots in use: they
\* are cloned as stated
C25_CloneOfArena ==
    [][(last'.op = "av_map_clone" /\ ~last'.failed /\ build = "exact"
        /\ s.internal_entries # NULL
        /\ s.next * SlotSize <= s.internal_entries_len)
       => /\ last'.ret = 1
          /\ ~ub'
          /\ Observations(heap', clone') = Observations(heap, s)]_vars

\* the reservation the call made asks for more than INT32_MAX bytes
OverInt32 ==
    /\ last'.op = "av_map_realloc" /\ ~ub'
    /\ s.next + ReallocAdvance(last'.kv[1], last'.kv[2]) > INT32_MAX \div SlotSize

C26_SizeRefused ==
    [][OverInt32
       => /\ last'.ret < 0
          /\ [s' EXCEPT !.internal_entries_len = 0] = [s EXCEPT !.internal_entries_len = 0]
          /\ Slots(heap', s') = Slots(heap, s)]_vars

RECURSIVE Walk(_, _, _)
\* where a walk over the arena ends that starts at slot i and moves on by
\* the run length recomputed from the lengths stored in the slot it is at
Walk(h, m, i) ==
    IF i >= m.next THEN i
    ELSE Walk(h, m, i + internal_entry_len(SlotAt(h, m, i + 1)))

\* the run lengths recomputed from the stored lengths are the advances that
\* were reserved, the walk by them from slot 0 ends at next, and the
\* iteration ends after at most one entry per run
WalkEndsAtNext(h, m) ==
    /\ ArenaSane(h, m)
    /\ \A i \in RunHeads(h, m) :
           internal_entry_len(SlotAt(h, m, i))
               = ReallocAdvance(1, SlotAt(h, m, i).keylen + SlotAt(h, m, i).valuelen)
    /\ Walk(h, m, 0) = m.next
    /\ Len(Iterate(h, m)) <= Cardinality(RunHeads(h, m))

\* C27: in every state adds and deletes lead to, the advance reserved for
\* an entry is the run length recomputed from its stored lengths, so that
\* the walk over the arena by run lengths from slot 0 ends at next and the
\* iteration ends with null after finitely many entries
C27_WalkEndsAtNext == build = "exact" => ~ub /\ WalkEndsAtNext(heap, s)

\* C27 in the states that no call with undefined behaviour has led to
C27_WalkDefined == ~ub => WalkEndsAtNext(heap, s)

\* the caller is shown exactly the entries of q: by av_map_iterate in the
\* order of q, and each by av_map_get with the construction comparator
Shows(h, m, q) ==
    /\ Iterate(h, m) = ViewsOf(q)
    /\ \A i \in 1..Len(q) : Get(h, m, UserPtr(q[i]), m.cmp_keyvalue) = ViewOf(q[i])

\* an av_map_del on a map that shows its live entries has met a failing
\* allocation in its rebuild
DelRebuildFailed ==
    /\ last'.op = "av_map_del" /\ last'.failed
    /\ Shows(heap, s, live)

\* the runs of the arena that hold an entry equal to kv under c
RunsEqual(h, m, c, kv) ==
    {i \in RunHeads(h, m) : Compare(c, kv, SlotAt(h, m, i).kv) = 0}

\* C28: when an allocation fails in the rebuild inside av_map_del, the
\* delete has taken effect and returns 1 and the map is left as it was but
\* for the delete: the arena is not replaced, the run of the deleted entry
\* is tombstoned, count is one less and deleted one more, and every other
\* live entry is still retrieved and iterated
C28_DelRebuildFailed ==
    [][DelRebuildFailed
       => /\ last'.ret = 1 /\ ~last'.moved /\ ~ub'
          /\ s'.internal_entries = s.internal_entries /\ s'.next = s.next
          /\ s'.count = s.count - 1 /\ s'.deleted = s.deleted + 1
          /\ \E i \in RunsEqual(heap, s, last'.c, last'.kv) :
                 Tombstones(heap', s') = Tombstones(heap, s) \cup {i}
          /\ Shows(heap', s', live')]_vars

\* C28 but for which run is tombstoned and what is shown afterwards
C28_DelRebuildFailedCounts ==
    [][DelRebuildFailed
       => /\ last'.ret = 1 /\ ~last'.moved /\ ~ub'
          /\ s'.internal_entries = s.internal_entries /\ s'.next = s.next
          /\ s'.count = s.count - 1 /\ s'.deleted = s.deleted + 1
          /\ Cardinality(Tombstones(heap', s')) = Cardinality(Tombstones(heap, s)) + 1]_vars

\* the entry a lookup returned is not tombstoned and is one that was added
\* and not deleted since
NeverDeleted(v) ==
    v.found = "yes" => ~v.dead /\ \E i \in 1..Len(live) : v.kv = live[i]

\* C29: no lookup returns a deleted entry: the key pointer of every entry
\* av_map_get or av_map_get_multiple returns is not the tombstone marker,
\* and the entry was added and not deleted since
C29_LookupNeverDeleted ==
    Defined =>
        \A c \in LookupCmps(s.cmp_keyvalue) : \A keyvalue \in ArgsFor(c) :
            /\ NeverDeleted(Get(heap, s, keyvalue, c))
            /\ \A i \in 1..Len(GetMultiple(heap, s, keyvalue, c)) :
                   NeverDeleted(GetMultiple(heap, s, keyvalue, c)[i])

\* an av_map_add has returned 0: an equal entry was in the map and
\* AV_MAP_REPLACE was not set
AddZero == last'.op = "av_map_add" /\ last'.ret = 0 /\ ~ub'

\* the call after an av_map_add that returned 0 is an av_map_add that
\* stores its entry
AddAfterAddZero ==
    /\ last.op = "av_map_add" /\ last.ret = 0 /\ ~ub
    /\ last'.op = "av_map_add" /\ last'.ret \in {1, 2} /\ ~ub'

\* C30 as stated: the slot written by an av_map_add that returned 0 stays in
\* the arena as wasted space: next has moved past it and a later add does
\* not overwrite it
C30_AbandonedSlotKept ==
    [][/\ AddZero => s'.next >= s.next + ReallocAdvance(1, Len(last'.kv))
       /\ AddAfterAddZero => Stored(SlotAt(heap', s', s.next + 1))
                                 = Stored(SlotAt(heap, s, s.next + 1))]_vars

\* C30: an av_map_add that returns 0 has written its entry at slot next and
\* returns before next is advanced (map.c:207), so the abandoned slot lies
\* at next, outside the used part of the arena, and the next av_map_add that
\* stores an entry writes it over the abandoned one
C30_AbandonedSlotReused ==
    [][/\ AddZero => /\ s'.next = s.next
                     /\ SlotAt(heap', s', s'.next + 1).kind = "head"
                     /\ SlotAt(heap', s', s'.next + 1).kv = last'.kv
       /\ AddAfterAddZero => /\ SlotAt(heap, s, s.next + 1).kv = last.kv
                             /\ SlotAt(heap', s', s.next + 1).kind = "head"
                             /\ SlotAt(heap', s', s.next + 1).kv = last'.kv
                             /\ s'.next = s.next + ReallocAdvance(1, Len(last'.kv))]_vars

\* an av_map_add of "a"="x" has returned 0 on a map that holds entries: what
\* it wrote lies in the slot at next
C30_Witness ==
    /\ ~ub /\ last.op = "av_map_add" /\ last.ret = 0 /\ last.kv = <<97, 0, 120, 0>>
    /\ s.next > 0 /\ s.count > 0
    /\ SlotAt(heap, s, s.next + 1).kind = "head"
    /\ SlotAt(heap, s, s.next + 1).kv = last.kv

Sign(v) == IF v > 0 THEN 1 ELSE IF v < 0 THEN -1 ELSE 0

\* the strings the tree of m holds, in tree order
TreeOrder(h, m) ==
    [i \in 1..Len(InOrder(h, m.tree_root, TreeSlots)) |->
        Bytes(h, InOrder(h, m.tree_root, TreeSlots)[i])]

\* the comparators documented as coarser than, and compatible with, ckv
Coarser(ckv) ==
    CASE ckv = "av_map_supercmp_keyvalue" -> {"av_map_supercmp_key", "av_strcasecmp"}
      [] ckv = "av_map_supercmp_key" -> {"av_strcasecmp"}
      [] ckv = "av_map_strcmp_keyvalue" -> {"strcmp"}
      [] OTHER -> {}

\* the comparators agree on a and b as map.h documents
Compatible(a, b) ==
    /\ av_strcasecmp(a, b) # 0
           => Sign(av_map_supercmp_key(a, b)) = Sign(av_strcasecmp(a, b))
    /\ av_map_supercmp_key(a, b) = 0 => strcmp(a, b) = 0
    /\ av_map_supercmp_key(a, b) # 0
           => Sign(av_map_supercmp_keyvalue(a, b)) = Sign(av_map_supercmp_key(a, b))
    /\ strcmp(a, b) # 0 => Sign(av_map_strcmp_keyvalue(a, b)) = Sign(strcmp(a, b))

\* the elements of q that are equal to k under c lie next to each other
OneRun(q, c, k) ==
    \A i, j \in 1..Len(q) :
        (i < j /\ Compare(c, k, q[i]) = 0 /\ Compare(c, k, q[j]) = 0)
            => \A n \in i..j : Compare(c, k, q[n]) = 0

\* C31: the reference comparators are compatible as documented: on the
\* strings a map holds and the one last passed to it, av_map_supercmp_key has
\* the sign of av_strcasecmp where that is not 0 and is 0 only where strcmp
\* is, av_map_supercmp_keyvalue has the sign of av_map_supercmp_key where that
\* is not 0, av_map_strcmp_keyvalue has the sign of strcmp where that is not
\* 0; and the entries equal under a coarser comparator form one run in the
\* order of the tree
C31_Compatible ==
    (~ub /\ last.op = "av_map_add") =>
        /\ \A a, b \in {TreeOrder(heap, s)[i] : i \in 1..Len(TreeOrder(heap, s))}
                         \cup {last.kv} : Compatible(a, b)
        /\ \A c \in Coarser(s.cmp_keyvalue) :
               \A i \in 1..Len(TreeOrder(heap, s)) :
                   OneRun(TreeOrder(heap, s), c, TreeOrder(heap, s)[i])

\* a map compared by av_map_supercmp_keyvalue holds "a"="x", "A"="y" and
\* "B"="x": under av_strcasecmp two of them are equal, under strcmp "B" comes
\* before "a"
C31_Witness ==
    /\ ~ub /\ s.cmp_keyvalue = "av_map_supercmp_keyvalue" /\ s.count >= 3
    /\ {<<97, 0, 120, 0>>, <<65, 0, 121, 0>>, <<66, 0, 120, 0>>}
           \subseteq {TreeOrder(heap, s)[i] : i \in 1..Len(TreeOrder(heap, s))}

\* the node of the entry written at slot next: after an av_map_add that
\* returned 0 it is zeroed and not linked
PendingNode(m) == internal_treenode(EntryPtr(m, m.next))

\* the elements of the tree at node t
Elements(h, t) == {InOrder(h, t, TreeSlots)[i] : i \in 1..Len(InOrder(h, t, TreeSlots))}

\* r is what av_tree_insert returned for key, which compares equal to an
\* element: that element is returned, the pending node is still referred to
\* and not linked, and no byte of the tree has changed
InsertKept(r, key) ==
    /\ r.ret \in Elements(heap, s.tree_root)
    /\ cmp(heap, s.cmp_keyvalue, r.ret, key) = 0
    /\ r.next = PendingNode(s)
    /\ r.next \notin Nodes(r.h, r.tp, TreeSlots)
    /\ r.tp = s.tree_root /\ r.h = heap

\* r is what av_tree_insert returned for key, which is equal to no element:
\* the pending node is linked with key as its element and the reference is
\* null; what is returned is null or key
InsertLinked(r, key) ==
    /\ r.ret \in {NULL, key} /\ r.next = NULL
    /\ PendingNode(s) \in Nodes(r.h, r.tp, TreeSlots)
    /\ NodeAt(r.h, PendingNode(s)).elem = key
    /\ Elements(r.h, r.tp) = Elements(heap, s.tree_root) \cup {key}
    /\ Increasing(r.h, s.cmp_keyvalue, InOrder(r.h, r.tp, TreeSlots))

\* C32: av_tree_insert with a pending node, for a key that compares equal
\* to an element of the tree, returns that element, leaves the reference to
\* the pending node as it was, the node unlinked, and the tree unchanged in
\* shape, elements and balance; for a key that is absent it links the
\* pending node, sets the reference to null, and the tree contains the key
C32_InsertPending ==
    (~ub /\ last.op = "av_map_add" /\ last.ret = 0) =>
        \A k \in TreeKeys :
            IF \E e \in Elements(heap, s.tree_root) :
                   cmp(heap, s.cmp_keyvalue, e, UserPtr(k)) = 0
            THEN InsertKept(av_tree_insert(heap, s.cmp_keyvalue, s.tree_root, UserPtr(k),
                                           PendingNode(s)), UserPtr(k))
            ELSE InsertLinked(av_tree_insert(heap, s.cmp_keyvalue, s.tree_root, UserPtr(k),
                                             PendingNode(s)), UserPtr(k))

\* an av_map_add has returned 0 on a tree of height 3 that holds four of the
\* five keys: its node is pending
C32_Witness ==
    /\ ~ub /\ last.op = "av_map_add" /\ last.ret = 0
    /\ Height(heap, s.tree_root, TreeSlots) = 3
    /\ Cardinality(Elements(heap, s.tree_root)) = 4
    /\ NodeAt(heap, PendingNode(s)).child = <<NULL, NULL>>

\* what comparing key with each element of q gives under c
Signs(h, c, q, key) == [i \in 1..Len(q) |-> cmp(h, c, key, q[i])]

\* the last element of q that the key is greater than, v being what the
\* comparisons of the key with the elements gave; none if there is no such
\* element
Smaller(q, v, none) ==
    IF \E i \in 1..Len(q) : v[i] > 0
    THEN q[CHOOSE i \in 1..Len(q) : v[i] > 0 /\ \A j \in (i + 1)..Len(q) : v[j] <= 0]
    ELSE none

\* the first element of q that the key is smaller than; none if there is
\* no such element
Greater(q, v, none) ==
    IF \E i \in 1..Len(q) : v[i] < 0
    THEN q[CHOOSE i \in 1..Len(q) : v[i] < 0 /\ \A j \in 1..(i - 1) : v[j] >= 0]
    ELSE none

\* r is what av_tree_find2 returned for the key on the tree whose elements
\* are q in tree order, with next = {none, none} on entry
FoundNeighbours(q, v, none, r) ==
    /\ r.ret = IF \E i \in 1..Len(q) : v[i] = 0
               THEN q[CHOOSE i \in 1..Len(q) : v[i] = 0]
               ELSE NULL
    /\ r.next[1] = Smaller(q, v, none)
    /\ r.next[2] = Greater(q, v, none)

\* C33: av_tree_find2 with a next array returns null for a key that is
\* absent and the element for one that is found; next[0] is then the
\* greatest element smaller than the key and next[1] the smallest element
\* greater than it, under the total order of the map the predecessor and
\* the successor of the match; each is left as it was when there is no such
\* element
C33_FindNeighbours ==
    Defined =>
        \E q \in {InOrder(heap, s.tree_root, TreeSlots)} :
            \A k \in TreeKeys :
                \E r \in {av_tree_find2(heap, s.cmp_keyvalue, s.tree_root, UserPtr(k),
                                         <<Undefined, Undefined>>, 2)},
                   v \in {Signs(heap, s.cmp_keyvalue, q, UserPtr(k))} :
                    FoundNeighbours(q, v, Undefined, r)

\* a tree of height 3 holds four of the five keys, and its root has two
\* children: one key is absent, and the neighbours of the root's element lie
\* below the root
C33_Witness ==
    /\ Defined /\ Height(heap, s.tree_root, TreeSlots) = 3
    /\ Len(InOrder(heap, s.tree_root, TreeSlots)) = 4
    /\ NULL \notin {NodeAt(heap, s.tree_root).child[1], NodeAt(heap, s.tree_root).child[2]}

\* the nodes of the tree of the map that have two children
InnerNodes(h, m) ==
    {t \in Nodes(h, m.tree_root, TreeSlots) :
        NULL \notin {NodeAt(h, t).child[1], NodeAt(h, t).child[2]}}

\* r is what av_tree_insert(&root, t->elem, cmp, &next) with *next = NULL
\* returned for the node t: t is still in the tree, its element is gone
\* from the tree, and the node handed back in *next is another node that
\* the root does not reach
Unlinked(h, m, t, r) ==
    /\ t \in Nodes(r.h, r.tp, TreeSlots)
    /\ Elements(r.h, r.tp) = Elements(h, m.tree_root) \ {NodeAt(h, t).elem}
    /\ r.next # NULL /\ r.next # t
    /\ r.next \notin Nodes(r.h, r.tp, TreeSlots)

\* C34 as stated: the element of a node with two children is unlinked by
\* giving the node the element of its in-order successor; the node handed
\* back is another node, which the root does not reach any more
C34_UnlinkBySuccessor ==
    Defined =>
        \A t \in InnerNodes(heap, s) :
            \E r \in {av_tree_insert(heap, s.cmp_keyvalue, s.tree_root,
                                      NodeAt(heap, t).elem, NULL)} :
                /\ Unlinked(heap, s, t, r)
                /\ \E q \in {InOrder(heap, s.tree_root, TreeSlots)} :
                       NodeAt(r.h, t).elem
                           = Greater(q, Signs(heap, s.cmp_keyvalue, q, NodeAt(heap, t).elem),
                                     NULL)

\* C34: the element of a node with two children is unlinked by giving the
\* node the element of its in-order predecessor, the greatest element of
\* its left subtree (i = !t->child[0] is 0, tree.c:95-97); the node handed
\* back is another node, which the root does not reach any more and which
\* has no children
C34_UnlinkByPredecessor ==
    Defined =>
        \A t \in InnerNodes(heap, s) :
            \E r \in {av_tree_insert(heap, s.cmp_keyvalue, s.tree_root,
                                      NodeAt(heap, t).elem, NULL)} :
                /\ Unlinked(heap, s, t, r)
                /\ \E q \in {InOrder(heap, s.tree_root, TreeSlots)} :
                       NodeAt(r.h, t).elem
                           = Smaller(q, Signs(heap, s.cmp_keyvalue, q, NodeAt(heap, t).elem),
                                     NULL)
                /\ NodeAt(r.h, t).elem \in Elements(heap, NodeAt(heap, t).child[1])
                /\ NodeAt(r.h, r.next).child = <<NULL, NULL>>

\* a tree of height 3 has a root with two children one of which has a child
\* of its own
C34_Witness ==
    /\ Defined /\ s.tree_root \in InnerNodes(heap, s)
    /\ Height(heap, s.tree_root, TreeSlots) = 3
    /\ Height(heap, NodeAt(heap, s.tree_root).child[1], TreeSlots) = 2

====
